---- MODULE Spec2Model ----
(***************************************************************************)
(* Lead selection and assignment core of the telesales automation:        *)
(*   telesales/rules.py   window dedupe, uniform re-query, source-first    *)
(*                         quota selection, Hamilton apportionment         *)
(*   telesales/assign.py  mix-aware assignment of the pool to callers      *)
(*   telesales/filters.py the filter rules applied to a pool               *)
(*   telesales/tier_a/pipeline.py, telesales/non_a/pipeline.py             *)
(*                         the holiday gate of a run, the two runs of main *)
(*   telesales/io_gsheets.py  the Sheets client and its dry-run mode       *)
(*   telesales/non_a/build.py, telesales/utils.py  the published schema    *)
(*                                                                         *)
(* A DataFrame is a sequence of rows.  A row of a candidate batch is a     *)
(* record [uid, phone, source_key, window_label]; uid stands for the rest  *)
(* of the row (username, ...) and tells two rows with one phone apart.     *)
(* A dict is a sequence of entries in insertion order.  A weight is the    *)
(* exact fraction n/d; the floats of the source are not modelled.          *)
(***************************************************************************)
EXTENDS Integers, Sequences, FiniteSets, TLC

VARIABLES
    pc,                 \* position of the function being run
    total,              \* _hamilton_apportion_local: total
    mix_weights,        \* raw weight map handed to assign / source-first
    weights,            \* normalized weight map
    base,               \* _hamilton_apportion_local: returned quotas
    df,                 \* earlier_window_wins_dedupe: input batch
    deduped,            \* dedupe result (running pool of requery_non_a)
    pools_by_window,    \* window key -> concatenated batches of that window
    target_rows,        \* requested pool size
    chosen_frames,      \* requery_non_a: rows accumulated so far
    touched,            \* windows whose batches have been read
    wi,                 \* requery_non_a: number of windows processed
    result,             \* pool returned by requery / source-first
    quotas,             \* source-first: per-source quota
    remaining,          \* source-first: remaining[s][w]
    taken_frames,       \* source-first: per-source selections
    combined,           \* source-first: combined selection
    si,                 \* source-first: number of sources processed
    non_a_rows,         \* assign: the pool (row i has index label i)
    callers,            \* assign: caller list (after the blank filter)
    per_caller_target,  \* assign: requested rows per caller
    remaining_by_src,   \* assign: bucket of every weighted source
    unknown_df,         \* assign: bucket of the other sources
    assigned_frames,    \* assign: one frame per caller that got rows
    ci,                 \* assign: number of callers processed
    out,                \* assign: returned telesale column
    pool_df,            \* apply_filters: candidate pool
    result_column,      \* apply_filters: the pool has a Result column
    compile_df,         \* apply_filters: this month's Compile rows
    blacklist_df,       \* apply_filters: central blacklist rows
    redeemed_usernames_today,  \* apply_filters: redeemed usernames
    toggles,            \* apply_filters: the keyword toggles
    filtered,           \* apply_filters: returned table
    tier,               \* run: the pipeline (Tier A or Non A)
    run_date,           \* run: target_day and its weekday
    holidays_df,        \* run: rows read from the Holidays tab
    holiday_column,     \* run: the Holidays tab has a holiday column
    row_count,          \* run: row_count of the returned TierWriteResult
    effects,            \* run: external writes and notifications, in order
    dry_run_reason,     \* SheetsClient: why the client is in dry-run ("" if live)
    gc,                 \* SheetsClient: the gspread client was authorized
    tabs,               \* the month file on Google Sheets: tab -> rows
    _cache,             \* SheetsClient: tab -> rows of its first read
    returned,           \* SheetsClient: the last call and what it returned
    external_writes,    \* SheetsClient: tabs written on Google Sheets, in order
    tier_of,            \* main: tier label of every loaded lead
    published_a,        \* main: rows published by the Tier A run
    published_non_a,    \* main: rows published by the Non-A run
    runs                \* main: the runs that have finished

apportionVars == <<total, base>>
dedupeVars    == <<df, deduped>>
requeryVars   == <<pools_by_window, target_rows, chosen_frames, touched, wi, result>>
sfVars        == <<quotas, remaining, taken_frames, combined, si>>
assignVars    == <<non_a_rows, callers, per_caller_target, remaining_by_src,
                   unknown_df, assigned_frames, ci, out>>
filterVars    == <<pool_df, result_column, compile_df, blacklist_df,
                   redeemed_usernames_today, toggles, filtered>>
gateVars      == <<tier, run_date, holidays_df, holiday_column, row_count, effects>>
sheetVars     == <<dry_run_reason, gc, tabs, _cache, returned, external_writes>>
tierVars      == <<tier_of, published_a, published_non_a, runs>>
vars == <<pc, mix_weights, weights, apportionVars, dedupeVars, requeryVars,
          sfVars, assignVars, filterVars, gateVars, sheetVars, tierVars>>

-----------------------------------------------------------------------------
(* Bounds of the model *)

MaxTotal    == 5    \* largest total apportioned
MaxWeight   == 3    \* largest raw weight of one key (weights are w / sum)
MaxDf       == 3    \* longest batch handed to the dedupe
MaxPoolRows == 3    \* most rows over all window batches
MaxTargetRows == 3  \* largest target_rows
MaxRows     == 5    \* longest pool handed to the assignment
MaxCallers  == 2    \* most callers
MaxTarget   == 3    \* largest per_caller_target
MaxPool     == 2    \* longest pool handed to the filters
MaxHist     == 2    \* most Compile rows
MaxMinCount == 2    \* largest unreachable_min_count
MaxBorrowRows == 4  \* most rows of the batches in the borrow specification
MaxHolidays == 2    \* most rows of the Holidays tab
MaxWriteRows == 1   \* most rows of the table a run writes

-----------------------------------------------------------------------------
(* constants.py *)

SOURCE_PC         == "cabal_pc_th"
SOURCE_MOBILE     == "cabal_mobile_th"
WINDOW_HOT        == "Hot Lead"
WINDOW_COLD       == "Cold Lead"
WINDOW_HIBERNATED == "Hibernated"

(* rules.py *)
WINDOW_PRIORITY == <<WINDOW_HOT, WINDOW_COLD, WINDOW_HIBERNATED>>
UNKNOWN_RANK    == 9999

-----------------------------------------------------------------------------
(* Generic helpers *)

Min(a, b) == IF a < b THEN a ELSE b
Max(a, b) == IF a > b THEN a ELSE b
SetMin(S)  == CHOOSE x \in S : \A y \in S : x <= y
Range(s)  == {s[i] : i \in 1..Len(s)}

RECURSIVE SumSeq(_)
SumSeq(s) == IF s = <<>> THEN 0 ELSE Head(s) + SumSeq(Tail(s))

RECURSIVE Flatten(_)
Flatten(ss) == IF ss = <<>> THEN <<>> ELSE Head(ss) \o Flatten(Tail(ss))

\* all sequences over S of length lo..hi
SeqsOf(S, lo, hi) == UNION {[1..n -> S] : n \in lo..hi}

\* sequences without a repeated element
Injective(s) == \A i, j \in 1..Len(s) : s[i] = s[j] => i = j

\* dict lookups on a sequence of entries [k, ...]
Keys(d)    == [i \in 1..Len(d) |-> d[i].k]
HasKey(d, k) == \E i \in 1..Len(d) : d[i].k = k
Get(d, k)  == d[CHOOSE i \in 1..Len(d) : d[i].k = k].v

-----------------------------------------------------------------------------
(* Hamilton (largest remainder) apportionment *)

\* list.sort(key=lambda x: x[1], reverse=True): stable, descending by the
\* remainder rn/d of each entry
\* faulty variant: among equal remainders the later entry comes first
RECURSIVE InsertByRemLaterFirst(_, _)
InsertByRemLaterFirst(x, s) ==
    IF s = <<>> THEN <<x>>
    ELSE IF Head(s).rn * x.d > x.rn * Head(s).d
         THEN <<Head(s)>> \o InsertByRemLaterFirst(x, Tail(s))
         ELSE <<x>> \o s

RECURSIVE InsertByRem(_, _)
InsertByRem(x, s) ==
    IF s = <<>> THEN <<x>>
    ELSE IF Head(s).rn * x.d >= x.rn * Head(s).d
         THEN <<Head(s)>> \o InsertByRem(x, Tail(s))
         ELSE <<x>> \o s

RECURSIVE SortRemDesc(_)
SortRemDesc(s) ==
    IF s = <<>> THEN <<>>
    ELSE InsertByRem(s[Len(s)], SortRemDesc(SubSeq(s, 1, Len(s) - 1)))

\* floor(total * w) and the remainder total * w - floor, for w = n/d
Floors(t, ws) == [i \in 1..Len(ws) |-> (t * ws[i].n) \div ws[i].d]
Rems(t, ws)   == [i \in 1..Len(ws) |->
                    [k |-> ws[i].k, rn |-> (t * ws[i].n) % ws[i].d, d |-> ws[i].d]]

\* the keys that receive one extra unit: the first `slots` of the sorted list
Awarded(t, ws, slots) ==
    LET srt == SortRemDesc(Rems(t, ws))
    IN  {srt[i].k : i \in 1..Min(Max(slots, 0), Len(srt))}

\* faulty variant: the leftover units are never handed out
HamiltonNoLeftover(t, ws) ==
    IF t <= 0 \/ ws = <<>>
    THEN [i \in 1..Len(ws) |-> [k |-> ws[i].k, v |-> 0]]
    ELSE [i \in 1..Len(ws) |-> [k |-> ws[i].k, v |-> Floors(t, ws)[i]]]

_hamilton_apportion_local(t, ws) ==
    IF t <= 0 \/ ws = <<>>
    THEN [i \in 1..Len(ws) |-> [k |-> ws[i].k, v |-> 0]]
    ELSE LET b        == Floors(t, ws)
             leftover == t - SumSeq(b)
             plus     == Awarded(t, ws, leftover)
         IN  [i \in 1..Len(ws) |->
                [k |-> ws[i].k,
                 v |-> b[i] + (IF ws[i].k \in plus THEN 1 ELSE 0)]]

\* the apportionment inlined in the caller loop of assign_mix_aware
desired(t, ws) ==
    LET b               == Floors(t, ws)
        remaining_slots == t - SumSeq(b)
        plus            == IF remaining_slots > 0
                           THEN Awarded(t, ws, remaining_slots) ELSE {}
    IN  [i \in 1..Len(ws) |->
           [k |-> ws[i].k,
            v |-> b[i] + (IF ws[i].k \in plus THEN 1 ELSE 0)]]

Values(d) == [i \in 1..Len(d) |-> d[i].v]

-----------------------------------------------------------------------------
(* Mix-weight normalization *)

Cleaned(mix) == SelectSeq(mix, LAMBDA e : e.w > 0)
Normalized(c) ==
    LET s == SumSeq([i \in 1..Len(c) |-> c[i].w])
    IN  [i \in 1..Len(c) |-> [k |-> c[i].k, n |-> c[i].w, d |-> s]]

\* assign.py
_normalize_mix(mix) ==
    IF Cleaned(mix) = <<>>
    THEN <<[k |-> SOURCE_PC, n |-> 1, d |-> 2], [k |-> SOURCE_MOBILE, n |-> 1, d |-> 2]>>
    ELSE Normalized(Cleaned(mix))

\* rules.py: no default, an empty map stays empty
_normalize_mix_local(mix) ==
    IF Cleaned(mix) = <<>> THEN <<>> ELSE Normalized(Cleaned(mix))

-----------------------------------------------------------------------------
(* DataFrame helpers *)

\* df.head(n): the first n rows; for n < 0 all rows but the last -n
head(d, n) ==
    IF n >= 0 THEN SubSeq(d, 1, Min(n, Len(d)))
    ELSE SubSeq(d, 1, Max(Len(d) + n, 0))

Phones(d) == {d[i].phone : i \in 1..Len(d)}
NoDupPhone(d) == \A i, j \in 1..Len(d) : d[i].phone = d[j].phone => i = j

\* pools_by_window.get(w, [])
PoolGet(p, w) == IF HasKey(p, w) THEN Get(p, w) ELSE <<>>

-----------------------------------------------------------------------------
(* earlier_window_wins_dedupe *)

_WINDOW_RANK(w) ==
    IF \E i \in 1..Len(WINDOW_PRIORITY) : WINDOW_PRIORITY[i] = w
    THEN (CHOOSE i \in 1..Len(WINDOW_PRIORITY) : WINDOW_PRIORITY[i] = w) - 1
    ELSE UNKNOWN_RANK

\* sort_values(by="_win_rank", kind="stable")
RECURSIVE InsertByRank(_, _)
InsertByRank(x, s) ==
    IF s = <<>> THEN <<x>>
    ELSE IF _WINDOW_RANK(Head(s).window_label) <= _WINDOW_RANK(x.window_label)
         THEN <<Head(s)>> \o InsertByRank(x, Tail(s))
         ELSE <<x>> \o s

RECURSIVE SortByRank(_)
SortByRank(s) ==
    IF s = <<>> THEN <<>>
    ELSE InsertByRank(s[Len(s)], SortByRank(SubSeq(s, 1, Len(s) - 1)))

\* drop_duplicates(subset=["phone"], keep="first")
RECURSIVE DropDuplicates(_)
DropDuplicates(s) ==
    IF s = <<>> THEN <<>>
    ELSE LET r == DropDuplicates(SubSeq(s, 1, Len(s) - 1))
             x == s[Len(s)]
         IN  IF x.phone \in Phones(r) THEN r ELSE Append(r, x)

\* faulty variant: the sort by window rank is left out (first occurrence wins)
DedupeUnsorted(d) == DropDuplicates(d)

earlier_window_wins_dedupe(d) == DropDuplicates(SortByRank(d))

-----------------------------------------------------------------------------
(* Values of the variables a function does not use *)

IdleApportion == total = 0 /\ base = <<>>
IdleDedupe    == df = <<>> /\ deduped = <<>>
IdleRequery   == /\ pools_by_window = <<>> /\ target_rows = 0
                 /\ chosen_frames = <<>> /\ touched = {} /\ wi = 0
                 /\ result = <<>>
IdleSF        == /\ quotas = <<>> /\ remaining = <<>> /\ taken_frames = <<>>
                 /\ combined = <<>> /\ si = 0
IdleAssign    == /\ non_a_rows = <<>> /\ callers = <<>> /\ per_caller_target = 0
                 /\ remaining_by_src = <<>> /\ unknown_df = <<>>
                 /\ assigned_frames = <<>> /\ ci = 0 /\ out = <<>>
IdleFilter    == /\ pool_df = <<>> /\ result_column = FALSE /\ compile_df = <<>>
                 /\ blacklist_df = <<>> /\ redeemed_usernames_today = {}
                 /\ toggles = <<>> /\ filtered = <<>>
IdleGate      == /\ tier = "" /\ run_date = <<>> /\ holidays_df = <<>>
                 /\ holiday_column = FALSE /\ row_count = 0 /\ effects = <<>>
IdleSheets    == /\ dry_run_reason = "" /\ gc = FALSE /\ tabs = <<>>
                 /\ _cache = <<>> /\ returned = <<>> /\ external_writes = <<>>
IdleTiers     == /\ tier_of = <<>> /\ published_a = <<>>
                 /\ published_non_a = <<>> /\ runs = {}

-----------------------------------------------------------------------------
(* Inputs *)

OTHER_SOURCE == "other_src"     \* a source_key outside the two known ones
OTHER_WINDOW == "Warm"          \* a window label outside WINDOW_PRIORITY

WeightKeys == {SOURCE_PC, SOURCE_MOBILE, OTHER_SOURCE}

\* weight maps of positive weights summing to 1: w_i / sum(w), keys distinct
PositiveMixes ==
    {m \in SeqsOf([k : WeightKeys, w : 1..MaxWeight], 1, Cardinality(WeightKeys)) :
        Injective(Keys(m))}

\* phones are named in order of first appearance: the code only compares them
CanonicalPhones(s) ==
    \A i \in 1..Len(s) :
        \/ \E j \in 1..(i - 1) : s[j].phone = s[i].phone
        \/ s[i].phone = Cardinality({s[j].phone : j \in 1..(i - 1)}) + 1

WithUid(s) == [i \in 1..Len(s) |-> [uid |-> i, phone |-> s[i].phone,
                                    source_key |-> s[i].source_key,
                                    window_label |-> s[i].window_label]]

-----------------------------------------------------------------------------
(* Specification of the apportionment *)

ApportionInit ==
    /\ pc = "apportion"
    /\ total \in 0..MaxTotal
    /\ weights \in {Normalized(m) : m \in PositiveMixes}
    /\ base = <<>>
    /\ mix_weights = <<>>
    /\ IdleDedupe /\ IdleRequery /\ IdleSF /\ IdleAssign /\ IdleFilter /\ IdleGate
    /\ IdleSheets /\ IdleTiers

\* quotas = _hamilton_apportion_local(int(target_rows), weights)
HamiltonLocal ==
    /\ pc = "apportion"
    /\ base' = _hamilton_apportion_local(total, weights)
    /\ pc' = "apportioned_local"
    /\ UNCHANGED <<total, mix_weights, weights, dedupeVars, requeryVars, sfVars, assignVars, filterVars, gateVars, sheetVars, tierVars>>

\* the per-caller apportionment of assign_mix_aware, reached with a target > 0
HamiltonInline ==
    /\ pc = "apportion"
    /\ total > 0
    /\ base' = desired(total, weights)
    /\ pc' = "apportioned_inline"
    /\ UNCHANGED <<total, mix_weights, weights, dedupeVars, requeryVars, sfVars, assignVars, filterVars, gateVars, sheetVars, tierVars>>

ApportionNext == HamiltonLocal \/ HamiltonInline
SpecApportion == ApportionInit /\ [][ApportionNext]_vars

Apportioned == pc \in {"apportioned_local", "apportioned_inline"}

\* C4: the quotas are non-negative integers, one per key of the weight map,
\* whose sum equals total; total = 0 yields all-zero quotas.
C4_QuotasSumToTotal ==
    Apportioned =>
        /\ Keys(base) = Keys(weights)
        /\ \A i \in 1..Len(base) : base[i].v \in Nat
        /\ SumSeq(Values(base)) = total
        /\ (total = 0 => \A i \in 1..Len(base) : base[i].v = 0)

\* positions that got one unit more than floor(total * weight)
Extra == {i \in 1..Len(base) : base[i].v = Floors(total, weights)[i] + 1}
\* the fractional remainder of position i exceeds / equals that of position j
RemGreater(i, j) ==
    Rems(total, weights)[i].rn * weights[j].d > Rems(total, weights)[j].rn * weights[i].d
RemEqual(i, j) ==
    Rems(total, weights)[i].rn * weights[j].d = Rems(total, weights)[j].rn * weights[i].d

\* C26: largest-remainder rule.  With total > 0 every quota is
\* floor(total * weight) or that plus one; exactly total - sum(floors) keys
\* get the extra unit, and a key that gets it has a larger remainder than
\* every key that does not, or an equal remainder and an earlier place in the
\* weight map.  The quotas are thereby a function of total and the ordered
\* weights.
C26_LargestRemainderEarlierKeyOnTies ==
    (Apportioned /\ total > 0) =>
        /\ Keys(base) = Keys(weights)
        /\ \A i \in 1..Len(base) :
              base[i].v \in {Floors(total, weights)[i], Floors(total, weights)[i] + 1}
        /\ Cardinality(Extra) = total - SumSeq(Floors(total, weights))
        /\ \A i \in Extra : \A j \in (1..Len(base)) \ Extra :
              RemGreater(i, j) \/ (RemEqual(i, j) /\ i < j)

\* an extra unit was decided by the order of the keys: two keys with equal
\* remainders, the earlier with the unit and the later without
C26_Witness ==
    /\ Apportioned
    /\ total > 0
    /\ \E i \in Extra : \E j \in (1..Len(base)) \ Extra : RemEqual(i, j) /\ i < j
    /\ \E i \in Extra : \E j \in (1..Len(base)) \ Extra : RemGreater(i, j)

\* a total that the floors undershoot by two, apportioned by either code path
C4_Witness ==
    /\ Apportioned
    /\ total - SumSeq(Floors(total, weights)) >= 2
    /\ SumSeq(Values(base)) = total

-----------------------------------------------------------------------------
(* Specification of the dedupe *)

DedupeLabels == {WINDOW_HOT, WINDOW_COLD, WINDOW_HIBERNATED, OTHER_WINDOW}

DedupeInputs ==
    {WithUid(s) : s \in {t \in SeqsOf([phone : 1..MaxDf, source_key : {SOURCE_PC},
                                        window_label : DedupeLabels], 0, MaxDf) :
                            CanonicalPhones(t)}}

DedupeInit ==
    /\ pc = "dedupe"
    /\ df \in DedupeInputs
    /\ deduped = <<>>
    /\ mix_weights = <<>> /\ weights = <<>>
    /\ IdleApportion /\ IdleRequery /\ IdleSF /\ IdleAssign /\ IdleFilter /\ IdleGate
    /\ IdleSheets /\ IdleTiers

Dedupe ==
    /\ pc = "dedupe"
    /\ deduped' = earlier_window_wins_dedupe(df)
    /\ pc' = "deduped"
    /\ UNCHANGED <<df, mix_weights, weights, apportionVars, requeryVars, sfVars, assignVars, filterVars, gateVars, sheetVars, tierVars>>

DedupeNext == Dedupe
SpecDedupe == DedupeInit /\ [][DedupeNext]_vars

\* the order of the windows as the specification states it
Priority(w) == CASE w = "Hot Lead"   -> 0
                 [] w = "Cold Lead"  -> 1
                 [] w = "Hibernated" -> 2
                 [] OTHER            -> 3

\* position in d of the row that must survive for phone p: best window,
\* and the first in input order among the rows of that window rank
Survivor(d, p) ==
    CHOOSE i \in 1..Len(d) :
        /\ d[i].phone = p
        /\ \A j \in 1..Len(d) : d[j].phone = p =>
              \/ Priority(d[i].window_label) < Priority(d[j].window_label)
              \/ /\ Priority(d[i].window_label) = Priority(d[j].window_label)
                 /\ i <= j

\* C5: the output has exactly one row per distinct phone of the input, and
\* the row kept for a phone is the first in input order among that phone's
\* rows of the best window rank (Hot, Cold, Hibernated, unknown labels last).
C5_OneRowPerPhoneBestWindow ==
    pc = "deduped" =>
        /\ NoDupPhone(deduped)
        /\ Phones(deduped) = Phones(df)
        /\ \A i \in 1..Len(deduped) :
              deduped[i] = df[Survivor(df, deduped[i].phone)]

\* a phone with a later-window row first, then two rows of the best window
C5_Witness ==
    /\ pc = "deduped"
    /\ \E i, j, k \in 1..Len(df) :
          /\ i < j /\ j < k
          /\ df[i].phone = df[j].phone /\ df[j].phone = df[k].phone
          /\ Priority(df[i].window_label) > Priority(df[j].window_label)
          /\ df[j].window_label = df[k].window_label
          /\ df[j] \in Range(deduped)

-----------------------------------------------------------------------------
(* Specification of the uniform re-query: requery_non_a / build_non_a_pool *)

PoolSources == {SOURCE_PC, SOURCE_MOBILE}

\* the rows of all window batches, in window order; every batch is tagged
\* with the window it is filed under (tag_window)
PoolRows ==
    {WithUid(s) : s \in {t \in SeqsOf([phone : 1..MaxPoolRows, source_key : PoolSources,
                                        window_label : Range(WINDOW_PRIORITY)],
                                       0, MaxPoolRows) :
                            /\ CanonicalPhones(t)
                            /\ \A i \in 1..(Len(t) - 1) :
                                  Priority(t[i].window_label) <= Priority(t[i + 1].window_label)}}

PoolsOf(rows) ==
    [i \in 1..Len(WINDOW_PRIORITY) |->
        [k |-> WINDOW_PRIORITY[i],
         v |-> SelectSeq(rows, LAMBDA r : r.window_label = WINDOW_PRIORITY[i])]]

PoolInputs == {PoolsOf(rows) : rows \in PoolRows}

\* every supplied row of every window (the batches are filed under the
\* keys of WINDOW_PRIORITY)
AllRows(p) == Flatten([i \in 1..Len(p) |-> p[i].v])
\* the rows supplied for windows of higher priority than window w
HigherRows(p, w) ==
    SelectSeq(AllRows(p), LAMBDA r : Priority(r.window_label) < Priority(w))

RequeryInit ==
    /\ pc = "requery"
    /\ pools_by_window \in PoolInputs
    /\ target_rows \in (-1)..MaxTargetRows
    /\ chosen_frames = <<>> /\ touched = {} /\ wi = 0 /\ result = <<>>
    /\ df = <<>> /\ deduped = <<>>
    /\ mix_weights = <<>> /\ weights = <<>>
    /\ IdleApportion /\ IdleSF /\ IdleAssign /\ IdleFilter /\ IdleGate
    /\ IdleSheets /\ IdleTiers

\* faulty variant: the loop goes on when the target is met exactly
ReachedTargetStrict(d, t) == Len(d) > t

\* faulty variant: a target that is not positive never stops the loop
ReachedTargetPositive(d, t) == t > 0 /\ Len(d) >= t

\* if len(deduped) >= int(target_rows)
ReachedTarget(d, t) == Len(d) >= t

\* faulty variant: the pool is returned without the cut to target_rows
ReturnUncut(d, t) == d

\* return deduped.head(int(target_rows))
ReturnHead(d, t) == head(d, t)

\* one iteration of `for w in WINDOW_PRIORITY`
RequeryWindow ==
    /\ pc = "requery"
    /\ wi < Len(WINDOW_PRIORITY)
    /\ LET w      == WINDOW_PRIORITY[wi + 1]
           merged == chosen_frames \o PoolGet(pools_by_window, w)
           dd     == earlier_window_wins_dedupe(merged)
       IN  /\ chosen_frames' = merged
           /\ touched' = touched \cup {w}
           /\ deduped' = dd
           /\ wi' = wi + 1
           /\ IF ReachedTarget(dd, target_rows)
              THEN result' = ReturnHead(dd, target_rows) /\ pc' = "requery_done"
              ELSE result' = result /\ pc' = pc
    /\ UNCHANGED <<pools_by_window, target_rows, df, mix_weights, weights,
                   apportionVars, sfVars, assignVars, filterVars, gateVars, sheetVars, tierVars>>

\* after the loop: not enough rows even after Hibernated
RequeryExhausted ==
    /\ pc = "requery"
    /\ wi = Len(WINDOW_PRIORITY)
    /\ result' = earlier_window_wins_dedupe(chosen_frames)
    /\ pc' = "requery_done"
    /\ UNCHANGED <<pools_by_window, target_rows, chosen_frames, touched, wi, df, deduped,
                   mix_weights, weights, apportionVars, sfVars, assignVars, filterVars, gateVars, sheetVars, tierVars>>

RequeryNext == RequeryWindow \/ RequeryExhausted
SpecRequery == RequeryInit /\ [][RequeryNext]_vars

\* C6: with target_rows > 0 the returned pool has exactly min(target_rows, D)
\* rows, D being the number of distinct phones over all supplied batches;
\* a supply below the target is returned whole.
C6_PoolSizeIsMinTargetSupply ==
    (pc = "requery_done" /\ target_rows > 0) =>
        /\ Len(result) = Min(target_rows, Cardinality(Phones(AllRows(pools_by_window))))
        /\ Phones(result) \subseteq Phones(AllRows(pools_by_window))
        /\ NoDupPhone(result)

\* the pool was cut to the target after the Cold batches were needed
C6_Witness ==
    /\ pc = "requery_done"
    /\ target_rows > 0
    /\ WINDOW_COLD \in touched
    /\ Cardinality(Phones(AllRows(pools_by_window))) > target_rows
    /\ Len(result) = target_rows

C23_Original ==
    (pc = "requery_done" /\ target_rows <= 0) => result = <<>>

\* C23 amended: with target_rows = 0 the returned pool is empty whatever the
\* batches; with target_rows < 0 only the Hot batches are read and the pool
\* is the deduplicated Hot rows without the last -target_rows of them, which
\* is empty only when Hot has at most -target_rows distinct phones.
C23_ZeroTargetEmptyNegativeCutsHot ==
    (pc = "requery_done" /\ target_rows <= 0) =>
        LET hot == PoolGet(pools_by_window, WINDOW_HOT)
        IN  /\ touched = {WINDOW_HOT}
            /\ target_rows = 0 => result = <<>>
            /\ target_rows < 0 =>
                  /\ Len(result) = Max(Cardinality(Phones(hot)) + target_rows, 0)
                  /\ NoDupPhone(result)
                  /\ \A i \in 1..Len(result) : result[i] \in Range(hot)

\* a zero target on a supply of several rows, Hot rows among them
C23_Witness ==
    /\ pc = "requery_done"
    /\ target_rows = 0
    /\ Len(AllRows(pools_by_window)) >= 2
    /\ PoolGet(pools_by_window, WINDOW_HOT) # <<>>
    /\ result = <<>>

-----------------------------------------------------------------------------
(* Specification of the source-first selection: requery_non_a_source_first *)

Entry(key, weight) == [k |-> key, w |-> weight]

\* weight maps as the pipeline hands them over: the enabled sources of the
\* Config tab with their positive weights, or the 50/50 default
MixChoices ==
    { <<Entry(SOURCE_PC, 1), Entry(SOURCE_MOBILE, 1)>>,
      <<Entry(SOURCE_MOBILE, 1), Entry(SOURCE_PC, 1)>>,
      <<Entry(SOURCE_PC, 2), Entry(SOURCE_MOBILE, 1)>>,
      <<Entry(SOURCE_PC, 1)>>,
      <<Entry(SOURCE_MOBILE, 1)>> }

\* faulty variant: the batch is not filtered by source
FilterNothing(d, s) == d

_filter_by_source(d, s) == SelectSeq(d, LAMBDA r : r.source_key = s)

\* remaining[s][w] = _filter_by_source(concat(pools[w]), s)
InitialRemaining(p, sources) ==
    [s \in Range(sources) |->
        [w \in Range(WINDOW_PRIORITY) |-> _filter_by_source(PoolGet(p, w), s)]]

\* faulty variant: the taken phones stay in the other sources' remaining pools
DropNothing(rem, phones) == rem

_drop_taken_from_remaining(rem, phones) ==
    [s \in DOMAIN rem |->
        [w \in DOMAIN rem[s] |-> SelectSeq(rem[s][w], LAMBDA r : r.phone \notin phones)]]

\* the window loop of one source: parts after windows i.. have been tried
RECURSIVE FillSource(_, _, _, _)
FillSource(rem_s, need, parts, i) ==
    IF i > Len(WINDOW_PRIORITY) \/ Len(parts) >= need THEN parts
    ELSE LET dfw == rem_s[WINDOW_PRIORITY[i]]
         IN  IF dfw = <<>> THEN FillSource(rem_s, need, parts, i + 1)
             ELSE LET dd     == earlier_window_wins_dedupe(parts \o dfw)
                      chosen == head(dd, Min(need, Len(dd)))
                  IN  FillSource(rem_s, need, chosen, i + 1)

\* borrow_frames: every remaining pool, window by window and source by source
BorrowFrames(rem, sources) ==
    Flatten([i \in 1..Len(WINDOW_PRIORITY) |->
               Flatten([j \in 1..Len(sources) |-> rem[sources[j]][WINDOW_PRIORITY[i]]])])

\* faulty variant: a short pool is returned as it is
BorrowNever(comb, rem, sources, t) == comb

\* Step 3-4: borrow if short
BorrowIfShort(comb, rem, sources, t) ==
    IF Len(comb) < t /\ BorrowFrames(rem, sources) # <<>>
    THEN head(earlier_window_wins_dedupe(comb \o BorrowFrames(rem, sources)), t)
    ELSE comb

SFInit ==
    /\ pc = "sf_start"
    /\ pools_by_window \in PoolInputs
    /\ target_rows \in 0..MaxTargetRows
    /\ mix_weights \in MixChoices
    /\ weights = <<>>
    /\ quotas = <<>> /\ remaining = <<>> /\ taken_frames = <<>>
    /\ combined = <<>> /\ si = 0 /\ result = <<>>
    /\ chosen_frames = <<>> /\ touched = {} /\ wi = 0
    /\ IdleApportion /\ IdleDedupe /\ IdleAssign /\ IdleFilter /\ IdleGate
    /\ IdleSheets /\ IdleTiers

\* weights, quotas and the remaining pools per source and window
SFStart ==
    /\ pc = "sf_start"
    /\ weights' = _normalize_mix_local(mix_weights)
    /\ quotas' = _hamilton_apportion_local(target_rows, weights')
    /\ remaining' = InitialRemaining(pools_by_window, Keys(weights'))
    /\ pc' = "sf_fill"
    /\ UNCHANGED <<mix_weights, taken_frames, combined, si, apportionVars, dedupeVars,
                   requeryVars, assignVars, filterVars, gateVars, sheetVars, tierVars>>

\* one iteration of `for s in sources`
SFSource ==
    /\ pc = "sf_fill"
    /\ si < Len(weights)
    /\ LET s      == weights[si + 1].k
           need   == Get(quotas, s)
           chosen == FillSource(remaining[s], need, <<>>, 1)
       IN  IF need > 0 /\ chosen # <<>>
           THEN /\ taken_frames' = Append(taken_frames, chosen)
                /\ remaining' = _drop_taken_from_remaining(remaining, Phones(chosen))
           ELSE UNCHANGED <<taken_frames, remaining, sheetVars, tierVars>>
    /\ si' = si + 1
    /\ UNCHANGED <<pc, mix_weights, weights, quotas, combined, apportionVars, dedupeVars,
                   requeryVars, assignVars, filterVars, gateVars, sheetVars, tierVars>>

\* combined = earlier_window_wins_dedupe(concat(taken_frames))
SFCombine ==
    /\ pc = "sf_fill"
    /\ si = Len(weights)
    /\ combined' = earlier_window_wins_dedupe(Flatten(taken_frames))
    /\ pc' = "sf_borrow"
    /\ UNCHANGED <<mix_weights, weights, quotas, remaining, taken_frames, si,
                   apportionVars, dedupeVars, requeryVars, assignVars, filterVars, gateVars, sheetVars, tierVars>>

\* the borrow step and the return
SFBorrow ==
    /\ pc = "sf_borrow"
    /\ combined' = BorrowIfShort(combined, remaining, Keys(weights), target_rows)
    /\ result' = combined'
    /\ pc' = "sf_done"
    /\ UNCHANGED <<mix_weights, weights, quotas, remaining, taken_frames, si,
                   pools_by_window, target_rows, chosen_frames, touched, wi,
                   apportionVars, dedupeVars, assignVars, filterVars, gateVars, sheetVars, tierVars>>

SFNext == SFStart \/ SFSource \/ SFCombine \/ SFBorrow
SpecSourceFirst == SFInit /\ [][SFNext]_vars

\* rows of source s in a batch, and the phones only source s supplies
OfSource(d, s) == SelectSeq(d, LAMBDA r : r.source_key = s)
SupplyPhones(s) == Phones(OfSource(AllRows(pools_by_window), s))
ExclusivePhones(s) ==
    SupplyPhones(s) \ UNION {SupplyPhones(o) : o \in Range(Keys(weights)) \ {s}}
\* the rows whose source is in the normalized weight map
WeightedRows ==
    SelectSeq(AllRows(pools_by_window), LAMBDA r : r.source_key \in Range(Keys(weights)))

QuotasMet == \A i \in 1..Len(quotas) : Len(OfSource(result, quotas[i].k)) = quotas[i].v

\* C8 as stated: every source with at least quota(s) distinct phones over all
\* windows gets exactly quota(s) rows in the returned pool.
C8_Original ==
    (/\ pc = "sf_done"
     /\ \A i \in 1..Len(quotas) : Cardinality(SupplyPhones(quotas[i].k)) >= quotas[i].v)
    => QuotasMet

\* C8 amended: when every source of the weight map has at least quota(s)
\* distinct phones that no other source of the weight map supplies, the
\* returned pool holds exactly quota(s) rows of each source s.
C8_QuotasMetOnExclusiveSupply ==
    (/\ pc = "sf_done"
     /\ \A i \in 1..Len(quotas) : Cardinality(ExclusivePhones(quotas[i].k)) >= quotas[i].v)
    => QuotasMet

\* two sources with a positive quota, one filled from a window after Hot
C8_Witness ==
    /\ pc = "sf_done"
    /\ Len(quotas) = 2
    /\ \A i \in 1..Len(quotas) :
          /\ quotas[i].v >= 1
          /\ Cardinality(ExclusivePhones(quotas[i].k)) >= quotas[i].v
    /\ \E i \in 1..Len(result) : result[i].window_label # WINDOW_HOT
    /\ QuotasMet

\* C9 as stated: with target_rows > 0 the pool has min(target_rows, D) rows,
\* D the number of distinct phones over all batches of every source.
C9_Original ==
    (pc = "sf_done" /\ target_rows > 0) =>
        Len(result) = Min(target_rows, Cardinality(Phones(AllRows(pools_by_window))))

\* C9 amended: with target_rows > 0 the pool has exactly min(target_rows, D)
\* rows, D the number of distinct phones over the supplied rows whose source
\* is a key of the normalized weight map.
C9_PoolSizeOverWeightedSources ==
    (pc = "sf_done" /\ target_rows > 0) =>
        Len(result) = Min(target_rows, Cardinality(Phones(WeightedRows)))

\* a source was short of its quota and the target was met by borrowing
C9_Witness ==
    /\ pc = "sf_done"
    /\ target_rows > 0
    /\ \E i \in 1..Len(quotas) : Len(OfSource(result, quotas[i].k)) > quotas[i].v
    /\ Len(result) = target_rows

\* C10: no phone is returned twice: after every source's selection, after
\* the combine step and after the borrow step every phone occurs in at most
\* one selected row.
C10_NoPhoneTwice ==
    /\ NoDupPhone(Flatten(taken_frames))
    /\ NoDupPhone(combined)
    /\ NoDupPhone(result)

\* one phone supplied under both sources and in two windows, returned once
\* by a run that borrowed
C10_Witness ==
    /\ pc = "sf_done"
    /\ \E i, j \in 1..Len(AllRows(pools_by_window)) :
          LET a == AllRows(pools_by_window)[i]
              b == AllRows(pools_by_window)[j]
          IN  /\ a.phone = b.phone
              /\ a.source_key # b.source_key
              /\ a.window_label # b.window_label
              /\ a.phone \in Phones(result)
    /\ Len(result) > Len(Flatten(taken_frames))

\* C11 as stated: earlier window wins within and across sources.  For every
\* phone of the returned pool the surviving row carries the highest-priority
\* window label among all supplied rows with that phone, of whichever source.
C11_EarlierWindowWinsAcrossSources ==
    pc = "sf_done" =>
        \A i \in 1..Len(result) :
            \A j \in 1..Len(AllRows(pools_by_window)) :
                AllRows(pools_by_window)[j].phone = result[i].phone
                => Priority(result[i].window_label)
                      <= Priority(AllRows(pools_by_window)[j].window_label)

\* non_a/pipeline.py: pools = {"Hot Lead": [...], "Cold": [...],
\* "Hibernated": [...]}, every batch tagged with its window constant
NON_A_POOL_KEYS == <<"Hot Lead", "Cold", "Hibernated">>
NonAPools(rows) ==
    [i \in 1..Len(NON_A_POOL_KEYS) |->
        [k |-> NON_A_POOL_KEYS[i],
         v |-> SelectSeq(rows, LAMBDA r : r.window_label = WINDOW_PRIORITY[i])]]

\* the selection as non_a.pipeline.run calls it: target_rows is
\* len(callers) * per_caller, at least 1
NonAPoolsInit ==
    /\ pc = "sf_start"
    /\ pools_by_window \in {NonAPools(rows) : rows \in PoolRows}
    /\ target_rows \in 1..MaxTargetRows
    /\ mix_weights \in MixChoices
    /\ weights = <<>>
    /\ quotas = <<>> /\ remaining = <<>> /\ taken_frames = <<>>
    /\ combined = <<>> /\ si = 0 /\ result = <<>>
    /\ chosen_frames = <<>> /\ touched = {} /\ wi = 0
    /\ IdleApportion /\ IdleDedupe /\ IdleAssign /\ IdleFilter /\ IdleGate
    /\ IdleSheets /\ IdleTiers

SpecNonAPools == NonAPoolsInit /\ [][SFNext]_vars

\* C25 as stated: the batches loaded for all three windows are reachable in
\* priority order.  A row of a later window is in the selected pool only if
\* every phone its source loaded for an earlier window is in the pool too;
\* in particular a Hibernated row enters only after the Hot and Cold rows of
\* its source are exhausted.
C25_LoadedWindowsSelectedInPriorityOrder ==
    pc = "sf_done" =>
        \A i \in 1..Len(result) :
            \A j \in 1..Len(AllRows(pools_by_window)) :
                (/\ AllRows(pools_by_window)[j].source_key = result[i].source_key
                 /\ Priority(AllRows(pools_by_window)[j].window_label)
                       < Priority(result[i].window_label))
                => AllRows(pools_by_window)[j].phone \in Phones(result)

\* Batches of up to MaxBorrowRows rows with pairwise distinct phones: enough
\* rows for one source to be short of its quota while another has rows to
\* lend beyond its own
BorrowPoolRows ==
    {WithUid([i \in 1..n |-> [phone |-> i, source_key |-> src[i],
                              window_label |-> win[i]]]) :
        n \in 1..MaxBorrowRows,
        src \in [1..MaxBorrowRows -> PoolSources],
        win \in {t \in [1..MaxBorrowRows -> Range(WINDOW_PRIORITY)] :
                   \A i \in 1..(MaxBorrowRows - 1) :
                       Priority(t[i]) <= Priority(t[i + 1])}}

BorrowInit ==
    /\ pc = "sf_start"
    /\ pools_by_window \in {PoolsOf(rows) : rows \in BorrowPoolRows}
    /\ target_rows \in 1..MaxTargetRows
    /\ mix_weights \in MixChoices
    /\ weights = <<>>
    /\ quotas = <<>> /\ remaining = <<>> /\ taken_frames = <<>>
    /\ combined = <<>> /\ si = 0 /\ result = <<>>
    /\ chosen_frames = <<>> /\ touched = {} /\ wi = 0
    /\ IdleApportion /\ IdleDedupe /\ IdleAssign /\ IdleFilter /\ IdleGate
    /\ IdleSheets /\ IdleTiers

SpecBorrow == BorrowInit /\ [][SFNext]_vars

\* the phones source s could still supply once the rows selected for the
\* other sources are removed
SupplyAfterRemoval(s) ==
    SupplyPhones(s) \ Phones(SelectSeq(Flatten(taken_frames),
                                       LAMBDA r : r.source_key # s))

\* C28 as stated: the borrow step never evicts a row selected under a
\* source's quota.  Every row of the per-source selections is in the
\* returned pool, and for every source s the pool holds at least
\* min(quota(s), number of distinct phones s could supply after cross-source
\* removal) rows of s.
C28_BorrowNeverEvictsQuotaRows ==
    pc = "sf_done" =>
        /\ \A r \in Range(Flatten(taken_frames)) : r \in Range(result)
        /\ \A i \in 1..Len(quotas) :
              Len(OfSource(result, quotas[i].k))
                 >= Min(quotas[i].v, Cardinality(SupplyAfterRemoval(quotas[i].k)))

-----------------------------------------------------------------------------
(* Specification of the assignment: assign_mix_aware *)

CallerName(i) == <<"caller_a", "caller_b", "caller_c", "caller_d">>[i]

\* the available callers of the Callers tab, possibly with a blank name
CallerLists ==
    LET named(n) == [i \in 1..n |-> CallerName(i)]
    IN  {named(n) : n \in 0..MaxCallers} \cup {<<"">> \o named(n) : n \in 0..MaxCallers}

\* the filtered pool: row i carries index label i
AssignPools ==
    {[i \in 1..Len(s) |-> [idx |-> i, source_key |-> s[i]]] :
        s \in SeqsOf(PoolSources, 0, MaxRows)}

\* faulty variant: the head is handed out but stays in the bucket
TakeFirstKeepAll(d, n) == <<SubSeq(d, 1, Min(Max(0, n), Len(d))), d>>

\* (head_n, tail_rest)
_take_first(d, n) ==
    IF d = <<>> \/ Max(0, n) = 0 THEN <<<<>>, d>>
    ELSE LET h == head(d, Max(0, n))
         IN  <<h, SubSeq(d, Len(h) + 1, Len(d))>>

Mark(d, caller) == [i \in 1..Len(d) |-> [idx |-> d[i].idx, source_key |-> d[i].source_key,
                                         telesale |-> caller]]

\* "Pull rows from each source bucket": the heads, source by source
PulledHeads(rem, des) ==
    Flatten([i \in 1..Len(des) |-> _take_first(rem[des[i].k], des[i].v)[1]])
PulledRest(rem, des) ==
    [s \in DOMAIN rem |->
        IF HasKey(des, s) /\ _take_first(rem[s], Get(des, s))[1] # <<>>
        THEN _take_first(rem[s], Get(des, s))[2] ELSE rem[s]]

\* "First, try unknown source bucket"
TopUpUnknown(unk, short) ==
    IF short > 0 /\ unk # <<>> THEN _take_first(unk, short) ELSE <<<<>>, unk>>

\* "Then, pull extra from any sources that still have rows"
RECURSIVE TopUpSources(_, _, _, _, _)
TopUpSources(rem, srcs, i, short, acc) ==
    IF i > Len(srcs) \/ short <= 0 THEN [rem |-> rem, add |-> acc]
    ELSE LET tf == _take_first(rem[srcs[i]], short)
         IN  IF tf[1] # <<>>
             THEN TopUpSources([rem EXCEPT ![srcs[i]] = tf[2]], srcs, i + 1,
                               short - Len(tf[1]), acc \o tf[1])
             ELSE TopUpSources(rem, srcs, i + 1, short, acc)

\* the body of `for caller in callers`
CallerTurn(rem, unk, caller, target, ws) ==
    LET des    == desired(target, ws)
        heads  == PulledHeads(rem, des)
        rem1   == PulledRest(rem, des)
        short1 == target - Len(heads)
        tu     == TopUpUnknown(unk, short1)
        short2 == target - (Len(heads) + Len(tu[1]))
        ts     == IF short1 > 0 /\ short2 > 0
                  THEN TopUpSources(rem1, Keys(ws), 1, short2, <<>>)
                  ELSE [rem |-> rem1, add |-> <<>>]
    IN  [rem   |-> ts.rem,
         unk   |-> tu[2],
         taken |-> Mark(heads \o tu[1] \o ts.add, caller)]

\* out.loc[assigned_df.index, "telesale"] = assigned_df["telesale"].values,
\* assigned_df being re-indexed 0..N-1 by concat(ignore_index=True)
TelesaleColumn(rows, assigned_df) ==
    [i \in 1..Len(rows) |-> IF i <= Len(assigned_df) THEN assigned_df[i].telesale ELSE ""]

\* faulty variant: the early return forgets the telesale column
UnassignedCopyNoColumn(rows) == <<>>

\* "Nothing to assign": out = non_a_rows.copy(); out["telesale"] = ""
UnassignedCopy(rows) == [i \in 1..Len(rows) |-> ""]

AssignInit ==
    /\ pc = "assign_start"
    /\ non_a_rows \in AssignPools
    /\ callers \in CallerLists
    /\ per_caller_target \in (-1)..MaxTarget
    /\ mix_weights \in MixChoices
    /\ weights = <<>>
    /\ remaining_by_src = <<>> /\ unknown_df = <<>> /\ assigned_frames = <<>>
    /\ ci = 0 /\ out = <<>>
    /\ IdleApportion /\ IdleDedupe /\ IdleRequery /\ IdleSF /\ IdleFilter /\ IdleGate
    /\ IdleSheets /\ IdleTiers

\* the early returns, the blank-name filter and the buckets
AssignStart ==
    /\ pc = "assign_start"
    /\ LET cs == SelectSeq(callers, LAMBDA c : c # "")
           ws == _normalize_mix(mix_weights)
       IN  IF non_a_rows = <<>>
           THEN /\ out' = <<>> /\ pc' = "assign_done"
                /\ UNCHANGED <<callers, weights, remaining_by_src, unknown_df, sheetVars, tierVars>>
           ELSE IF cs = <<>> \/ per_caller_target <= 0
           THEN /\ callers' = cs
                /\ out' = UnassignedCopy(non_a_rows) /\ pc' = "assign_done"
                /\ UNCHANGED <<weights, remaining_by_src, unknown_df, sheetVars, tierVars>>
           ELSE /\ callers' = cs
                /\ weights' = ws
                /\ remaining_by_src' =
                      [s \in Range(Keys(ws)) |->
                          SelectSeq(non_a_rows, LAMBDA r : r.source_key = s)]
                /\ unknown_df' =
                      SelectSeq(non_a_rows, LAMBDA r : r.source_key \notin Range(Keys(ws)))
                /\ pc' = "assign_loop"
                /\ out' = out
    /\ UNCHANGED <<non_a_rows, per_caller_target, mix_weights, assigned_frames, ci,
                   apportionVars, dedupeVars, requeryVars, sfVars, filterVars, gateVars, sheetVars, tierVars>>

\* one iteration of `for caller in callers`
AssignCaller ==
    /\ pc = "assign_loop"
    /\ ci < Len(callers)
    /\ LET t == CallerTurn(remaining_by_src, unknown_df, callers[ci + 1],
                           per_caller_target, weights)
       IN  /\ remaining_by_src' = t.rem
           /\ unknown_df' = t.unk
           /\ assigned_frames' = IF t.taken # <<>> THEN Append(assigned_frames, t.taken)
                                 ELSE assigned_frames
    /\ ci' = ci + 1
    /\ UNCHANGED <<pc, non_a_rows, callers, per_caller_target, mix_weights, weights, out,
                   apportionVars, dedupeVars, requeryVars, sfVars, filterVars, gateVars, sheetVars, tierVars>>

\* "Any leftovers remain unassigned": the returned copy
AssignFinish ==
    /\ pc = "assign_loop"
    /\ ci = Len(callers)
    /\ out' = TelesaleColumn(non_a_rows, Flatten(assigned_frames))
    /\ pc' = "assign_done"
    /\ UNCHANGED <<non_a_rows, callers, per_caller_target, mix_weights, weights,
                   remaining_by_src, unknown_df, assigned_frames, ci,
                   apportionVars, dedupeVars, requeryVars, sfVars, filterVars, gateVars, sheetVars, tierVars>>

AssignNext == AssignStart \/ AssignCaller \/ AssignFinish
SpecAssign == AssignInit /\ [][AssignNext]_vars

-----------------------------------------------------------------------------
(* Claims about assign_mix_aware *)

\* positions of the returned table whose telesale is caller c
RowsOf(c) == {i \in 1..Len(out) : out[i] = c}
\* index labels of the rows pulled from the buckets during the turn of c
PulledFor(c) ==
    {r.idx : r \in {x \in Range(Flatten(assigned_frames)) : x.telesale = c}}
\* the loop ran (no early return)
Assigned == pc = "assign_done" /\ weights # <<>>

\* C1 as stated: with total_available >= k >= 1 every caller ends up with
\* the same number of rows, min(requested_target, floor(total_available / k)),
\* and the rows beyond k times that number stay unassigned.
C1_EqualCountPerCaller ==
    (Assigned /\ Len(non_a_rows) >= Len(callers)) =>
        LET capped == Min(per_caller_target, Len(non_a_rows) \div Len(callers))
        IN  /\ \A c \in Range(callers) : Cardinality(RowsOf(c)) = capped
            /\ Cardinality(RowsOf("")) = Len(non_a_rows) - Len(callers) * capped

\* C2: no row is assigned twice.  After any prefix of the caller loop the
\* rows pulled for the callers are pairwise distinct, no pulled row is left
\* in a source bucket or in the unknown bucket, and the returned column
\* names a caller on as many rows as were pulled, one name per row.
C2_NoRowAssignedTwice ==
    LET pulled == Flatten(assigned_frames)
    IN  /\ \A i, j \in 1..Len(pulled) : pulled[i].idx = pulled[j].idx => i = j
        /\ \A i \in 1..Len(pulled) :
              /\ \A s \in DOMAIN remaining_by_src :
                    \A j \in 1..Len(remaining_by_src[s]) :
                       remaining_by_src[s][j].idx # pulled[i].idx
              /\ \A j \in 1..Len(unknown_df) : unknown_df[j].idx # pulled[i].idx
        /\ Assigned =>
              /\ Len(out) = Len(non_a_rows)
              /\ Len(pulled) <= Len(non_a_rows)
              /\ Cardinality({i \in 1..Len(out) : out[i] # ""}) = Len(pulled)
              /\ \A c \in Range(callers) : Cardinality(RowsOf(c)) = Cardinality(PulledFor(c))

\* two callers both pulled from one bucket and both were topped up
C2_Witness ==
    /\ Assigned
    /\ Len(callers) = 2
    /\ \A c \in Range(callers) : Cardinality(PulledFor(c)) >= 2
    /\ \E s \in DOMAIN remaining_by_src :
          \A c \in Range(callers) :
             \E r \in Range(Flatten(assigned_frames)) : r.telesale = c /\ r.source_key = s
    /\ \E r \in Range(Flatten(assigned_frames)) : r.source_key \notin DOMAIN remaining_by_src

\* C3 as stated: in the returned table the rows of caller c are exactly the
\* rows pulled during c's turn, whatever the order of the sources in the
\* pool; so when every bucket holds enough rows for every caller, c has
\* quota(s) rows of every source s.
C3_RowsOfCallerAreThePulledRows ==
    Assigned =>
        /\ \A c \in Range(callers) : RowsOf(c) = PulledFor(c)
        /\ (\A i \in 1..Len(weights) :
               Len(SelectSeq(non_a_rows, LAMBDA r : r.source_key = weights[i].k))
                  >= Len(callers) * desired(per_caller_target, weights)[i].v)
           => \A c \in Range(callers) : \A i \in 1..Len(weights) :
                 Cardinality({j \in RowsOf(c) : non_a_rows[j].source_key = weights[i].k})
                    = desired(per_caller_target, weights)[i].v

\* the callers that survive the blank-name filter
AvailableCallers == SelectSeq(callers, LAMBDA c : c # "")

\* C17 as stated: with fewer available rows than callers and a positive
\* requested target, the capped target floor(total_available / k) is 0, so
\* the returned table has an empty telesale on every row and no caller
\* receives a row.
C17_NoAssignmentWhenFewerRowsThanCallers ==
    (/\ pc = "assign_done"
     /\ non_a_rows # <<>>
     /\ Len(non_a_rows) < Len(AvailableCallers)
     /\ per_caller_target > 0)
    => /\ Len(out) = Len(non_a_rows)
       /\ \A i \in 1..Len(out) : out[i] = ""
       /\ \A c \in Range(AvailableCallers) : RowsOf(c) = {}

\* empty pool, no caller left after the blank-name filter, or target <= 0
Degenerate ==
    \/ non_a_rows = <<>>
    \/ AvailableCallers = <<>>
    \/ per_caller_target <= 0

\* C18: on degenerate input (empty pool, caller list empty or only blank
\* names, or per_caller_target <= 0) assign_mix_aware returns one telesale
\* entry per row of the pool, every one of them empty, and no row is pulled
\* for any caller.
C18_DegenerateInputLeavesAllUnassigned ==
    (pc = "assign_done" /\ Degenerate) =>
        /\ Len(out) = Len(non_a_rows)
        /\ \A i \in 1..Len(out) : out[i] = ""
        /\ assigned_frames = <<>>

\* a non-empty pool came back unassigned because no caller was left, and
\* another because the target was not positive
C18_Witness ==
    /\ pc = "assign_done"
    /\ Len(non_a_rows) >= 2
    /\ Len(out) = Len(non_a_rows)
    /\ \/ AvailableCallers = <<>> /\ per_caller_target > 0
       \/ AvailableCallers # <<>> /\ per_caller_target <= 0

-----------------------------------------------------------------------------
(* Top-up order of assign_mix_aware: pools with rows of a source that no
   weight map names *)

TopUpPools ==
    {[i \in 1..Len(s) |-> [idx |-> i, source_key |-> s[i]]] :
        s \in SeqsOf(PoolSources \cup {OTHER_SOURCE}, 1, MaxRows)}

TopUpInit ==
    /\ pc = "assign_start"
    /\ non_a_rows \in TopUpPools
    /\ callers \in {[i \in 1..n |-> CallerName(i)] : n \in 1..MaxCallers}
    /\ per_caller_target \in 1..MaxTarget
    /\ mix_weights \in MixChoices
    /\ weights = <<>>
    /\ remaining_by_src = <<>> /\ unknown_df = <<>> /\ assigned_frames = <<>>
    /\ ci = 0 /\ out = <<>>
    /\ IdleApportion /\ IdleDedupe /\ IdleRequery /\ IdleSF /\ IdleFilter /\ IdleGate
    /\ IdleSheets /\ IdleTiers

SpecTopUp == TopUpInit /\ [][AssignNext]_vars

\* C24 as stated: a caller's shortfall is taken from the other known sources
\* first and from the unknown bucket only when the known-source buckets
\* cannot cover it.  So once a row of a source outside the weight map has
\* been pulled for a caller, no known-source bucket has a row left.
C24_UnknownBucketOnlyWhenKnownExhausted ==
    (pc \in {"assign_loop", "assign_done"} /\ weights # <<>>) =>
        ((\E r \in Range(Flatten(assigned_frames)) :
              r.source_key \notin DOMAIN remaining_by_src)
         => \A s \in DOMAIN remaining_by_src : remaining_by_src[s] = <<>>)

-----------------------------------------------------------------------------
(* Mix-weight defaults: selection and assignment on weight maps that are
   absent, empty or without a positive weight *)

\* `mix_weights or {}`: an absent map is the empty map; maps whose weights
\* are all zero or negative
InvalidMixes ==
    { <<>>,
      <<Entry(SOURCE_PC, 0)>>,
      <<Entry(SOURCE_MOBILE, -1)>>,
      <<Entry(SOURCE_PC, 0), Entry(SOURCE_MOBILE, 0)>> }

DefaultsMixes ==
    InvalidMixes \cup { <<Entry(SOURCE_PC, 1), Entry(SOURCE_MOBILE, 0)>>,
                        <<Entry(SOURCE_PC, 1), Entry(SOURCE_MOBILE, 1)>> }

\* a call of requery_non_a_source_first or of assign_mix_aware
DefaultsInit ==
    \/ /\ pc = "sf_start"
       /\ pools_by_window \in PoolInputs
       /\ target_rows \in 0..MaxTargetRows
       /\ mix_weights \in DefaultsMixes
       /\ weights = <<>>
       /\ quotas = <<>> /\ remaining = <<>> /\ taken_frames = <<>>
       /\ combined = <<>> /\ si = 0 /\ result = <<>>
       /\ chosen_frames = <<>> /\ touched = {} /\ wi = 0
       /\ IdleApportion /\ IdleDedupe /\ IdleAssign /\ IdleFilter /\ IdleGate
       /\ IdleSheets /\ IdleTiers
    \/ /\ pc = "assign_start"
       /\ non_a_rows \in AssignPools
       /\ callers \in CallerLists
       /\ per_caller_target \in (-1)..MaxTarget
       /\ mix_weights \in DefaultsMixes
       /\ weights = <<>>
       /\ remaining_by_src = <<>> /\ unknown_df = <<>> /\ assigned_frames = <<>>
       /\ ci = 0 /\ out = <<>>
       /\ IdleApportion /\ IdleDedupe /\ IdleRequery /\ IdleSF /\ IdleFilter /\ IdleGate
       /\ IdleSheets /\ IdleTiers

DefaultsNext == SFNext \/ AssignNext
SpecDefaults == DefaultsInit /\ [][DefaultsNext]_vars

\* the 50/50 PC/Mobile map
IsFiftyFifty(ws) ==
    /\ Len(ws) = 2
    /\ Range(ws) = {[k |-> SOURCE_PC, n |-> 1, d |-> 2],
                    [k |-> SOURCE_MOBILE, n |-> 1, d |-> 2]}

\* C19 as stated: an absent or empty weight map, or one with no positive
\* weight, is normalized to the 50/50 PC/Mobile default both by the selection
\* and by the assignment, so a selection with a positive target over a
\* non-empty supply still returns rows.
C19_DefaultMixOnInvalidWeights ==
    Cleaned(mix_weights) = <<>> =>
        /\ pc \in {"sf_fill", "sf_borrow", "sf_done"} => IsFiftyFifty(weights)
        /\ (pc = "assign_loop" \/ (pc = "assign_done" /\ ~Degenerate))
              => IsFiftyFifty(weights)
        /\ (pc = "sf_done" /\ target_rows > 0 /\ AllRows(pools_by_window) # <<>>)
              => result # <<>>

-----------------------------------------------------------------------------
(* filters.py: apply_filters *)

\* the Thai status texts of filters.py, written by their English meaning
UNREACHABLE_ANS_STATUSES ==
    {"no answer", "cannot contact", "cut the call", "not convenient to talk"}
ANSWERED_STATUS       == "answered"
RESULT_INVALID_NUMBER == "invalid number"
RESULT_NOT_INTERESTED == "not interested"
RESULT_NOT_OWNER      == "not owner of id"

\* utils.today_key(): today's date as DD-MM-YYYY
today_key == "01-09-2025"
OTHER_DAY == "29-08-2025"       \* an Assign Date of an earlier day

\* phone + "|" + username + "|" + source_key of a pool or blacklist row
_triple_key(r) == r.phone \o "|" \o r.username \o "|" \o r.source_key

\* f"{phone}|{username}|{platform}" of a Compile row
CompKey(r) == r.phone \o "|" \o r.username \o "|" \o r.platform

SeqFilter(s, mask) ==
    LET F[i \in 0..Len(s)] ==
            IF i = 0 THEN <<>>
            ELSE IF mask[i] THEN Append(F[i - 1], s[i]) ELSE F[i - 1]
    IN  F[Len(s)]

\* keep &= ~pool_key.isin(bl_key), when the blacklist is not empty
KeepBlacklist(r, bl) ==
    bl = <<>> \/ _triple_key(r) \notin {_triple_key(bl[i]) : i \in 1..Len(bl)}

\* today_keys: the Compile rows whose Assign Date is today's
today_keys(comp) ==
    {CompKey(comp[i]) : i \in {j \in 1..Len(comp) : comp[j].assign = today_key}}
KeepToday(r, comp) ==
    today_keys(comp) = {} \/ _triple_key(r) \notin today_keys(comp)

\* unreachable_counts: rows with an unreachable answer status, per key
unreachable_rows(comp) ==
    {i \in 1..Len(comp) : comp[i].ans \in UNREACHABLE_ANS_STATUSES}
unreach_cnt(r, comp) ==
    Cardinality({i \in unreachable_rows(comp) : CompKey(comp[i]) = _triple_key(r)})

\* keep &= df3["unreach_cnt"] < int(unreachable_min_count).  df3 comes out
\* of merge() with a fresh RangeIndex while keep carries the pool's index:
\* `&=` aligns the two on index labels, so the pool row labelled l gets
\* the count of the row at position l, and False when no such position exists.
KeepUnreachable(pool, i, comp, tg) ==
    \/ ~tg.drop_unreachable_repeat
    \/ unreachable_rows(comp) = {}
    \/ /\ pool[i].idx < Len(pool)
       /\ unreach_cnt(pool[pool[i].idx + 1], comp) < tg.unreachable_min_count

answered_keys(comp) ==
    {CompKey(comp[i]) : i \in {j \in 1..Len(comp) : comp[j].ans = ANSWERED_STATUS}}

\* faulty variant: the toggle of the answered rule is not consulted
KeepAnsweredAlways(r, comp, tg) ==
    answered_keys(comp) = {} \/ _triple_key(r) \notin answered_keys(comp)

KeepAnswered(r, comp, tg) ==
    \/ ~tg.drop_answered_this_month
    \/ answered_keys(comp) = {}
    \/ _triple_key(r) \notin answered_keys(comp)

not_interested_keys(comp) ==
    {CompKey(comp[i]) : i \in {j \in 1..Len(comp) : comp[j].res = RESULT_NOT_INTERESTED}}
KeepNotInterested(r, comp, tg) ==
    \/ ~tg.drop_not_interested_this_month
    \/ not_interested_keys(comp) = {}
    \/ _triple_key(r) \notin not_interested_keys(comp)

\* the block under `if not comp.empty`
KeepCompile(pool, i, comp, tg) ==
    comp = <<>> \/ (/\ KeepToday(pool[i], comp)
                    /\ KeepUnreachable(pool, i, comp, tg)
                    /\ KeepAnswered(pool[i], comp, tg)
                    /\ KeepNotInterested(pool[i], comp, tg))

\* the lifetime rules read the pool row's own Result
KeepInvalidNumber(r, hasResult, tg) ==
    ~(tg.drop_invalid_number /\ hasResult) \/ r.Result # RESULT_INVALID_NUMBER
KeepNotOwner(r, hasResult, tg) ==
    ~(tg.drop_not_owner_as_blacklist /\ hasResult) \/ r.Result # RESULT_NOT_OWNER

\* faulty variant: an empty redeemed set drops every row
KeepRedeemedStrict(r, redeemed, tg) ==
    ~tg.drop_redeemed_today \/ (redeemed # {} /\ r.username \notin redeemed)

KeepRedeemed(r, redeemed, tg) ==
    ~(tg.drop_redeemed_today /\ redeemed # {}) \/ r.username \notin redeemed

\* the mask `keep` after every rule
keep(pool, hasResult, comp, bl, redeemed, tg) ==
    [i \in 1..Len(pool) |->
        /\ KeepBlacklist(pool[i], bl)
        /\ KeepCompile(pool, i, comp, tg)
        /\ KeepInvalidNumber(pool[i], hasResult, tg)
        /\ KeepNotOwner(pool[i], hasResult, tg)
        /\ KeepRedeemed(pool[i], redeemed, tg)]

\* df[keep].reset_index(drop=True); the idx of a returned row is the label
\* it had in the pool
Filtered(pool, mask) == SeqFilter(pool, mask)

apply_filters(pool, hasResult, comp, bl, redeemed, tg) ==
    IF pool = <<>> THEN pool
    ELSE Filtered(pool, keep(pool, hasResult, comp, bl, redeemed, tg))

-----------------------------------------------------------------------------
(* Specification of the filter layer *)

FilterUsers == {"u1", "u2"}
PHONE       == "912345678"
PHONE_FLOAT == "912345678.0"    \* the same number read back as a float
PHONE_ZERO  == "0912345678"     \* the same number with its leading zero

ResultValues == {"", RESULT_INVALID_NUMBER, RESULT_NOT_OWNER}

PoolRow(u, p, res) == [username |-> u, phone |-> p, source_key |-> SOURCE_PC, Result |-> res]

\* usernames are named in order of first appearance
CanonicalUsers(s) == s = <<>> \/ s[1].username = "u1"

\* the index of the pool: the labels 0..n-1 of reset_index ...
RangeIndex(n) == [i \in 1..n |-> i - 1]
\* ... or the labels a boolean selection leaves (pipeline.py keeps the rows
\* of one tier without reset_index): 0..n with one label missing
SelectedIndex(n) == {[i \in 1..n |-> IF i <= gap THEN i - 1 ELSE i] : gap \in 0..n}
WithIndex(s, labels) ==
    [i \in 1..Len(s) |-> [idx |-> labels[i], username |-> s[i].username,
                          phone |-> s[i].phone, source_key |-> s[i].source_key,
                          Result |-> s[i].Result]]

\* candidate pools with a Result column ...
PoolsWithResult(phones, n) ==
    {WithIndex(s, RangeIndex(Len(s))) :
        s \in {t \in SeqsOf({PoolRow(u, p, res) :
                                u \in FilterUsers, p \in phones, res \in ResultValues}, 0, n) :
                 CanonicalUsers(t)}}
\* ... and without one
PoolsWithoutResult(phones, n) ==
    UNION {{WithIndex(s, labels) : labels \in SelectedIndex(Len(s))} :
        s \in {t \in SeqsOf({PoolRow(u, p, "") : u \in FilterUsers, p \in phones}, 1, n) :
                 CanonicalUsers(t)}}

\* identities a blacklist or Compile row can carry: the pool's leads and
\* one that differs from a pool lead by its source only
LeadKeys(phones) ==
    {[username |-> u, phone |-> p, source_key |-> SOURCE_PC] : u \in FilterUsers, p \in phones}
    \cup {[username |-> "u1", phone |-> p, source_key |-> SOURCE_MOBILE] : p \in phones}

\* what the callers recorded on a Compile row
Outcomes ==
    { [ans |-> "no answer",     res |-> "",  assign |-> OTHER_DAY],
      [ans |-> "cut the call",  res |-> "",  assign |-> OTHER_DAY],
      [ans |-> ANSWERED_STATUS, res |-> "",  assign |-> OTHER_DAY],
      [ans |-> ANSWERED_STATUS, res |-> RESULT_NOT_INTERESTED, assign |-> OTHER_DAY],
      [ans |-> "",              res |-> "",  assign |-> today_key],
      [ans |-> "no answer",     res |-> "",  assign |-> today_key] }

CompileRows(phones) ==
    {[username |-> k.username, phone |-> k.phone, platform |-> k.source_key,
      ans |-> o.ans, res |-> o.res, assign |-> o.assign] :
        k \in LeadKeys(phones), o \in Outcomes}

\* the keyword arguments; config.py clamps unreachable_min_count to 1..10
ToggleChoices ==
    [drop_unreachable_repeat : BOOLEAN, unreachable_min_count : 1..MaxMinCount,
     drop_answered_this_month : BOOLEAN, drop_invalid_number : BOOLEAN,
     drop_not_interested_this_month : BOOLEAN, drop_not_owner_as_blacklist : BOOLEAN,
     drop_redeemed_today : BOOLEAN]

AllOn(tg) ==
    /\ tg.drop_unreachable_repeat /\ tg.drop_answered_this_month
    /\ tg.drop_invalid_number /\ tg.drop_not_interested_this_month
    /\ tg.drop_not_owner_as_blacklist /\ tg.drop_redeemed_today
AllOff(tg) ==
    /\ ~tg.drop_unreachable_repeat /\ ~tg.drop_answered_this_month
    /\ ~tg.drop_invalid_number /\ ~tg.drop_not_interested_this_month
    /\ ~tg.drop_not_owner_as_blacklist /\ ~tg.drop_redeemed_today

PoolChoice(phones, n) ==
    \/ result_column = TRUE  /\ pool_df \in PoolsWithResult(phones, n)
    \/ result_column = FALSE /\ pool_df \in PoolsWithoutResult(phones, n)

\* every combination of the toggles, on short tables
FilterInitToggles ==
    /\ PoolChoice({PHONE}, MaxPool)
    /\ compile_df \in SeqsOf(CompileRows({PHONE}), 0, 1)
    /\ blacklist_df \in SeqsOf(LeadKeys({PHONE}), 0, 1)
    /\ redeemed_usernames_today \in {{}, {"u1"}}
    /\ toggles \in {tg \in ToggleChoices : tg.unreachable_min_count = 1}

\* a longer history, every rule switched on
FilterInitHistory ==
    /\ result_column = FALSE
    /\ pool_df \in PoolsWithoutResult({PHONE}, MaxPool)
    /\ compile_df \in SeqsOf(CompileRows({PHONE}), 2, MaxHist)
    /\ blacklist_df = <<>>
    /\ redeemed_usernames_today = {}
    /\ toggles \in {tg \in ToggleChoices : AllOn(tg)}

\* one lead whose phone is written in different ways in the three tables
FilterInitPhones ==
    /\ result_column = FALSE
    /\ pool_df \in {WithIndex(<<PoolRow("u1", p, "")>>, RangeIndex(1)) :
                        p \in {PHONE, PHONE_FLOAT, PHONE_ZERO}}
    /\ compile_df \in SeqsOf({r \in CompileRows({PHONE, PHONE_FLOAT, PHONE_ZERO}) :
                                r.username = "u1" /\ r.platform = SOURCE_PC}, 0, 1)
    /\ blacklist_df \in SeqsOf({k \in LeadKeys({PHONE, PHONE_FLOAT, PHONE_ZERO}) :
                                  k.username = "u1" /\ k.source_key = SOURCE_PC}, 0, 1)
    /\ redeemed_usernames_today = {}
    /\ toggles \in {tg \in ToggleChoices : AllOn(tg) /\ tg.unreachable_min_count = 1}

FilterInit ==
    /\ pc = "filter"
    /\ FilterInitToggles \/ FilterInitHistory \/ FilterInitPhones
    /\ filtered = <<>>
    /\ mix_weights = <<>> /\ weights = <<>>
    /\ IdleApportion /\ IdleDedupe /\ IdleRequery /\ IdleSF /\ IdleAssign /\ IdleGate
    /\ IdleSheets /\ IdleTiers

ApplyFilters ==
    /\ pc = "filter"
    /\ filtered' = apply_filters(pool_df, result_column, compile_df, blacklist_df,
                                 redeemed_usernames_today, toggles)
    /\ pc' = "filter_done"
    /\ UNCHANGED <<pool_df, result_column, compile_df, blacklist_df,
                   redeemed_usernames_today, toggles, mix_weights, weights,
                   apportionVars, dedupeVars, requeryVars, sfVars, assignVars, gateVars, sheetVars, tierVars>>

FilterNext == ApplyFilters
SpecFilters == FilterInit /\ [][FilterNext]_vars

-----------------------------------------------------------------------------
(* Claims about apply_filters *)

FilterDone == pc = "filter_done"

\* the number a phone value denotes once a trailing ".0" and leading zeros
\* are stripped
StrippedPhone(p) == IF p \in {PHONE_FLOAT, PHONE_ZERO} THEN PHONE ELSE p

\* C12 as stated: a pool row and a blacklist or history row with the same
\* username and source, whose phones differ only by a trailing ".0" or by
\* leading zeros, produce equal composite keys, so the pool row is matched
\* (here: by the blacklist rule and by the already-assigned-today rule).
C12_KeyStableUnderPhoneArtifacts ==
    FilterDone =>
        \A i \in 1..Len(pool_df) :
            /\ \A j \in 1..Len(blacklist_df) :
                  (/\ blacklist_df[j].username = pool_df[i].username
                   /\ blacklist_df[j].source_key = pool_df[i].source_key
                   /\ StrippedPhone(blacklist_df[j].phone) = StrippedPhone(pool_df[i].phone))
                  => /\ _triple_key(blacklist_df[j]) = _triple_key(pool_df[i])
                     /\ pool_df[i] \notin Range(filtered)
            /\ \A j \in 1..Len(compile_df) :
                  (/\ compile_df[j].username = pool_df[i].username
                   /\ compile_df[j].platform = pool_df[i].source_key
                   /\ StrippedPhone(compile_df[j].phone) = StrippedPhone(pool_df[i].phone)
                   /\ compile_df[j].assign = today_key)
                  => /\ CompKey(compile_df[j]) = _triple_key(pool_df[i])
                     /\ pool_df[i] \notin Range(filtered)

\* the rules as the specification's table states them, for pool row r
SameLead(r, h, src) == h.phone = r.phone /\ h.username = r.username /\ src = r.source_key
InBlacklist(r) ==
    \E j \in 1..Len(blacklist_df) : SameLead(r, blacklist_df[j], blacklist_df[j].source_key)
History(r) ==
    {j \in 1..Len(compile_df) : SameLead(r, compile_df[j], compile_df[j].platform)}
AssignedToday(r)  == \E j \in History(r) : compile_df[j].assign = today_key
UnreachableCount(r) ==
    Cardinality({j \in History(r) : compile_df[j].ans \in UNREACHABLE_ANS_STATUSES})
Answered(r)       == \E j \in History(r) : compile_df[j].ans = ANSWERED_STATUS
NotInterested(r)  == \E j \in History(r) : compile_df[j].res = RESULT_NOT_INTERESTED
InvalidNumber(r)  == result_column /\ r.Result = RESULT_INVALID_NUMBER
NotOwner(r)       == result_column /\ r.Result = RESULT_NOT_OWNER
Redeemed(r)       == r.username \in redeemed_usernames_today

RuleNames == {"blacklist", "assigned_today", "unreachable", "answered",
              "not_interested", "invalid_number", "not_owner", "redeemed"}

\* a rule is enabled when its toggle is on; the blacklist and the
\* already-assigned-today rule have no toggle
Enabled(rule) ==
    CASE rule = "unreachable"    -> toggles.drop_unreachable_repeat
      [] rule = "answered"       -> toggles.drop_answered_this_month
      [] rule = "not_interested" -> toggles.drop_not_interested_this_month
      [] rule = "invalid_number" -> toggles.drop_invalid_number
      [] rule = "not_owner"      -> toggles.drop_not_owner_as_blacklist
      [] rule = "redeemed"       -> toggles.drop_redeemed_today
      [] OTHER                   -> TRUE

Condition(rule, r) ==
    CASE rule = "blacklist"      -> InBlacklist(r)
      [] rule = "assigned_today" -> AssignedToday(r)
      [] rule = "unreachable"    -> UnreachableCount(r) >= toggles.unreachable_min_count
      [] rule = "answered"       -> Answered(r)
      [] rule = "not_interested" -> NotInterested(r)
      [] rule = "invalid_number" -> InvalidNumber(r)
      [] rule = "not_owner"      -> NotOwner(r)
      [] rule = "redeemed"       -> Redeemed(r)

Drops(rule, r) == Enabled(rule) /\ Condition(rule, r)
PassesAll(r)   == \A rule \in RuleNames : ~Drops(rule, r)

\* C13 as stated: the returned table is exactly the input rows that pass
\* every enabled rule, in input order, none added, duplicated or altered.
C13_ExactlyThePassingRowsInOrder ==
    FilterDone => filtered = SelectSeq(pool_df, PassesAll)

\* the inputs a rule reads are present
InputPresent(rule) ==
    CASE rule = "blacklist" -> blacklist_df # <<>>
      [] rule \in {"assigned_today", "unreachable", "answered", "not_interested"}
                            -> compile_df # <<>>
      [] rule = "redeemed"  -> redeemed_usernames_today # {}
      [] OTHER              -> result_column

\* C14: optional inputs are skippable.  With the history absent or empty
\* the output is exactly the rows that the blacklist, the Result rules and
\* the redeemed rule let pass; in every case a dropped row is dropped by a
\* rule whose input is present (the unreachable rule as coded can reach any
\* row, but only when the history holds an unreachable call); with all
\* three inputs absent and no Result column the output equals the pool.
C14_AbsentInputsDropNothing ==
    FilterDone =>
        /\ compile_df = <<>> => filtered = SelectSeq(pool_df, PassesAll)
        /\ \A i \in 1..Len(pool_df) :
              pool_df[i] \notin Range(filtered) =>
                 \/ \E rule \in RuleNames : Drops(rule, pool_df[i]) /\ InputPresent(rule)
                 \/ /\ toggles.drop_unreachable_repeat
                    /\ \E j \in 1..Len(compile_df) :
                          compile_df[j].ans \in UNREACHABLE_ANS_STATUSES
        /\ (/\ compile_df = <<>> /\ blacklist_df = <<>>
            /\ redeemed_usernames_today = {} /\ ~result_column)
           => filtered = pool_df

\* all three inputs absent, no Result column, every toggle on, two rows in
\* and the same two rows out
C14_Witness ==
    /\ FilterDone
    /\ compile_df = <<>> /\ blacklist_df = <<>> /\ redeemed_usernames_today = {}
    /\ ~result_column
    /\ AllOn(toggles)
    /\ Len(pool_df) = 2
    /\ filtered = pool_df

\* the rules that have a toggle
Toggled == RuleNames \ {"blacklist", "assigned_today"}

\* C15 as stated: each of the eight rules can be switched off.  With every
\* toggle of the function off no rule drops a row.
C15_Original ==
    (FilterDone /\ AllOff(toggles)) => filtered = pool_df

\* the toggles with the toggle of one rule switched on
WithOn(tg, rule) ==
    CASE rule = "unreachable"    -> [tg EXCEPT !.drop_unreachable_repeat = TRUE]
      [] rule = "answered"       -> [tg EXCEPT !.drop_answered_this_month = TRUE]
      [] rule = "not_interested" -> [tg EXCEPT !.drop_not_interested_this_month = TRUE]
      [] rule = "invalid_number" -> [tg EXCEPT !.drop_invalid_number = TRUE]
      [] rule = "not_owner"      -> [tg EXCEPT !.drop_not_owner_as_blacklist = TRUE]
      [] rule = "redeemed"       -> [tg EXCEPT !.drop_redeemed_today = TRUE]

\* the inputs with everything removed that meets the condition of one rule
PoolWithout(rule) ==
    [i \in 1..Len(pool_df) |->
        IF \/ rule = "invalid_number" /\ pool_df[i].Result = RESULT_INVALID_NUMBER
           \/ rule = "not_owner" /\ pool_df[i].Result = RESULT_NOT_OWNER
        THEN [pool_df[i] EXCEPT !.Result = ""] ELSE pool_df[i]]
CompileWithout(rule) ==
    [j \in 1..Len(compile_df) |->
        IF \/ rule = "unreachable" /\ compile_df[j].ans \in UNREACHABLE_ANS_STATUSES
           \/ rule = "answered" /\ compile_df[j].ans = ANSWERED_STATUS
        THEN [compile_df[j] EXCEPT !.ans = ""]
        ELSE IF rule = "not_interested" /\ compile_df[j].res = RESULT_NOT_INTERESTED
        THEN [compile_df[j] EXCEPT !.res = ""]
        ELSE compile_df[j]]
RedeemedWithout(rule) == IF rule = "redeemed" THEN {} ELSE redeemed_usernames_today

Labels(d) == [i \in 1..Len(d) |-> d[i].idx]

\* C15 amended: each of the six rules that have a toggle (unreachable
\* repeat, answered, not interested, invalid number, not owner, redeemed)
\* is independently toggleable.  With the rule switched off the rows
\* returned are those returned with the rule on and inputs in which no row
\* meets the rule's condition: no row is dropped on account of the rule and
\* the decisions of the other rules are unchanged, whatever the other
\* toggles are.
C15_SixRulesToggleable ==
    FilterDone =>
        \A rule \in Toggled :
            ~Enabled(rule) =>
                Labels(filtered) =
                    Labels(apply_filters(PoolWithout(rule), result_column,
                                         CompileWithout(rule), blacklist_df,
                                         RedeemedWithout(rule), WithOn(toggles, rule)))

\* a rule is off, a row meeting its condition is returned, and another
\* row is dropped by a rule that is on
C15_Witness ==
    /\ FilterDone
    /\ \E rule \in Toggled : \E i, j \in 1..Len(pool_df) :
          /\ ~Enabled(rule)
          /\ Condition(rule, pool_df[i])
          /\ pool_df[i] \in Range(filtered)
          /\ pool_df[j] \notin Range(filtered)
          /\ \E other \in Toggled \ {rule} : Drops(other, pool_df[j])

\* C16 as stated: with the unreachable-repeat rule enabled, a pool row that
\* no other rule drops is dropped if and only if the history rows with its
\* composite key and an unreachable answer status number at least
\* unreachable_min_count; a row with fewer such rows is never dropped by it.
C16_UnreachableThreshold ==
    (FilterDone /\ toggles.drop_unreachable_repeat) =>
        \A i \in 1..Len(pool_df) :
            (\A other \in RuleNames \ {"unreachable"} : ~Drops(other, pool_df[i]))
            => (pool_df[i] \notin Range(filtered)
                <=> UnreachableCount(pool_df[i]) >= toggles.unreachable_min_count)

-----------------------------------------------------------------------------
(* tier_a/pipeline.py and non_a/pipeline.py: the holiday gate of run() *)

TIER_A == "Tier A"
NON_A  == "Non A"

\* A date text of the Holidays tab or of RUN_DATE: "2025-MM-DD" is
\* [fmt |-> "iso", a |-> MM, b |-> DD], "A/B/2025" is [fmt |-> "slash", ...],
\* anything that is no date is [fmt |-> "text", ...].  A date is [m, d].
Cell(f, x, y) == [fmt |-> f, a |-> x, b |-> y]
NaT == [m |-> 0, d |-> 0]
HolidayDayNumbers == {1, 9}
DateTexts(f) == {Cell(f, x, y) : x \in HolidayDayNumbers, y \in HolidayDayNumbers}
BlankCell == Cell("text", 0, 0)

\* pd.to_datetime(text, errors="coerce", dayfirst=...).  A slash date is read
\* month first unless dayfirst is set.  An ISO date is read year-month-day;
\* with dayfirst set the reading depends on the pandas at hand: year-month-day
\* (ISO fast path) or year-day-month (ydm).
to_datetime(c, dayfirst, ydm) ==
    CASE c.fmt = "iso"   -> IF dayfirst /\ ydm THEN [m |-> c.b, d |-> c.a]
                            ELSE [m |-> c.a, d |-> c.b]
      [] c.fmt = "slash" -> IF dayfirst THEN [m |-> c.b, d |-> c.a]
                            ELSE [m |-> c.a, d |-> c.b]
      [] OTHER           -> NaT

\* _pd.Timestamp.today().date(), the day of today_key
TODAY == [m |-> 9, d |-> 1]

\* RUN_DATE: unset, an ISO date, or a text that to_datetime cannot read
UnsetCell == Cell("unset", 0, 0)
RunDates ==
    {UnsetCell, Cell("iso", 9, 1), Cell("iso", 1, 9), Cell("iso", 9, 6), BlankCell}

\* to_datetime(run_date_env) raises on a text that is no date
RunDateRaises == run_date.fmt = "text"
target_day == IF run_date = UnsetCell THEN TODAY ELSE to_datetime(run_date, FALSE, FALSE)

\* date.weekday() in 2025: Monday is 0; 1 January 2025 is a Wednesday
DaysBefore == <<0, 31, 59, 90, 120, 151, 181, 212, 243, 273, 304, 334>>
weekday(day) == (2 + DaysBefore[day.m] + day.d - 1) % 7

\* str(v).strip().lower() on the values of the holiday column
StripLower(v) ==
    CASE v = "TRUE"  -> "true"
      [] v = "FALSE" -> "false"
      [] v = " Yes " -> "yes"
      [] OTHER       -> v
HolidayValues == {"TRUE", "FALSE", " Yes ", ""}
TruthyHoliday == {"1", "true", "t", "yes", "y"}

\* the Holidays tab: one date format per tab; without a holiday column the
\* rows carry a date only
HolidayTabs(withColumn) ==
    UNION {SeqsOf([date : DateTexts(f) \cup {BlankCell},
                   holiday : IF withColumn THEN HolidayValues ELSE {""}],
                  0, MaxHolidays) : f \in {"iso", "slash"}}

\* mask = hd["_date"] == target_day
HolidayMask(dayfirst, ydm) ==
    {i \in 1..Len(holidays_df) :
        to_datetime(holidays_df[i].date, dayfirst, ydm) = target_day}

\* non_a: skip when the holiday column exists and the first row of the run
\* date carries a true value
NonASkips ==
    /\ holidays_df # <<>>
    /\ ~RunDateRaises
    /\ holiday_column
    /\ HolidayMask(FALSE, FALSE) # {}
    /\ StripLower(holidays_df[SetMin(HolidayMask(FALSE, FALSE))].holiday)
          \in TruthyHoliday

\* tier_a: skip on a weekend, or when the run date is present in the tab
TierASkips(ydm) ==
    /\ ~RunDateRaises
    /\ \/ weekday(target_day) >= 5
       \/ holidays_df # <<>> /\ HolidayMask(TRUE, ydm) # {}

GateInit ==
    /\ pc = "gate_start"
    /\ tier \in {TIER_A, NON_A}
    /\ run_date \in RunDates
    /\ holiday_column \in BOOLEAN
    /\ holidays_df \in HolidayTabs(holiday_column)
    /\ row_count = -1
    /\ effects = <<>>
    /\ mix_weights = <<>> /\ weights = <<>>
    /\ IdleApportion /\ IdleDedupe /\ IdleRequery /\ IdleSF /\ IdleAssign /\ IdleFilter
    /\ IdleSheets /\ IdleTiers

\* return TierWriteResult(tier, "", today_key(), 0, "", "")
GateSkip ==
    /\ pc = "gate_start"
    /\ \/ tier = NON_A /\ NonASkips
       \/ tier = TIER_A /\ \E ydm \in BOOLEAN : TierASkips(ydm)
    /\ row_count' = 0
    /\ pc' = "gate_returned"
    /\ UNCHANGED <<tier, run_date, holidays_df, holiday_column, effects,
                   mix_weights, weights, apportionVars, dedupeVars,
                   requeryVars, sfVars, assignVars, filterVars, sheetVars, tierVars>>

\* the gate lets the run through (also when it raised: except Exception: pass)
GatePass ==
    /\ pc = "gate_start"
    /\ \/ tier = NON_A /\ ~NonASkips
       \/ tier = TIER_A /\ \E ydm \in BOOLEAN : ~TierASkips(ydm)
    /\ pc' = "gate_passed"
    /\ UNCHANGED <<gateVars,
                   mix_weights, weights, apportionVars, dedupeVars,
                   requeryVars, sfVars, assignVars, filterVars, sheetVars, tierVars>>

\* selection, filters and build give a table of n rows; _write publishes it
Write ==
    /\ pc = "gate_passed"
    /\ \E n \in 0..MaxWriteRows :
          /\ row_count' = n
          /\ effects' = effects \o <<"find_or_create_month_file", "ensure_tabs",
                                     "write_df_to_tab", "upsert_compile">>
    /\ pc' = "gate_written"
    /\ UNCHANGED <<tier, run_date, holidays_df, holiday_column,
                   mix_weights, weights, apportionVars, dedupeVars,
                   requeryVars, sfVars, assignVars, filterVars, sheetVars, tierVars>>

\* if cfg.webhook_a / cfg.webhook_non_a: notify_discord(...); return res
Notify ==
    /\ pc = "gate_written"
    /\ \E webhook \in BOOLEAN :
          effects' = IF webhook THEN Append(effects, "notify_discord") ELSE effects
    /\ pc' = "gate_returned"
    /\ UNCHANGED <<tier, run_date, holidays_df, holiday_column, row_count,
                   mix_weights, weights, apportionVars, dedupeVars,
                   requeryVars, sfVars, assignVars, filterVars, sheetVars, tierVars>>

GateNext == GateSkip \/ GatePass \/ Write \/ Notify
SpecHolidayGate == GateInit /\ [][GateNext]_vars

\* the Holidays tab has a row whose date, written ISO or day first, is the day
ListedOn(day) ==
    \E i \in 1..Len(holidays_df) :
        \/ holidays_df[i].date.fmt = "iso"
           /\ holidays_df[i].date.a = day.m /\ holidays_df[i].date.b = day.d
        \/ holidays_df[i].date.fmt = "slash"
           /\ holidays_df[i].date.a = day.d /\ holidays_df[i].date.b = day.m

\* C20 as stated: when the run date is listed in the Holidays tab, the run
\* of either pipeline writes no sheet, upserts no Compile row and sends no
\* notification, and the result it returns has row_count 0.
C20_HolidayGateSkipsBothPipelines ==
    (tier # "" /\ ~RunDateRaises /\ ListedOn(target_day)) =>
        /\ effects = <<>>
        /\ pc # "gate_passed"
        /\ pc = "gate_returned" => row_count = 0

-----------------------------------------------------------------------------
(* io_gsheets.py: SheetsClient *)

\* the ids of SheetsInfo: the placeholders, and the id of the month file
DRY_RUN_ID    == "DRY-RUN"
UNKNOWN_ID    == "UNKNOWN"
MONTH_FILE_ID == "month file"

\* the tabs of the month file; day tabs are named by today_key()
COMPILE_TAB == "Compile"
SHEET1      == "Sheet1"
TabNames    == {COMPILE_TAB, today_key, SHEET1}
RequiredTabs == {COMPILE_TAB, today_key}

\* a table: whether its header has the Assign Date column, and its rows;
\* pd.DataFrame() has no columns
NO_COLUMNS == "no columns"
DATED      == "with Assign Date"
UNDATED    == "without Assign Date"
NONE_DF    == "None"
DataFrame(columns, rows) == [columns |-> columns, rows |-> rows]
EmptyDataFrame == DataFrame(NO_COLUMNS, <<>>)
NoneDf == DataFrame(NONE_DF, <<>>)
empty(d) == d.columns = NO_COLUMNS \/ d.rows = <<>>

SheetRow(date, lead) == [assign |-> date, lead |-> lead]
BlankRow == SheetRow("", "")            \* a row whose cells are all empty

\* a worksheet of the month file
Tab(exists, columns, rows) == [exists |-> exists, columns |-> columns, rows |-> rows]
NoTab    == Tab(FALSE, NO_COLUMNS, <<>>)
BlankTab == Tab(TRUE, NO_COLUMNS, <<>>)    \* what add_worksheet creates

\* a spreadsheet has at least one worksheet
FileExists(t) == \E n \in TabNames : t[n].exists

\* self.dry_run
dry_run == dry_run_reason # ""

\* df.dropna(how="all")
dropna(rows) == SelectSeq(rows, LAMBDA r : r # BlankRow)

\* what read_tab_as_df gets from Google Sheets for one worksheet
Fetched(t) ==
    IF ~t.exists \/ t.columns = NO_COLUMNS THEN EmptyDataFrame
    ELSE DataFrame(t.columns, dropna(t.rows))

\* pd.concat([a, b], ignore_index=True)
concat(a, b) ==
    DataFrame(IF DATED \in {a.columns, b.columns} THEN DATED
              ELSE IF UNDATED \in {a.columns, b.columns} THEN UNDATED
              ELSE NO_COLUMNS,
              a.rows \o b.rows)

\* the rows of Compile that upsert_compile keeps: those whose Assign Date is
\* not one of the batch's Assign Date values
KeptRows(comp, today_df) ==
    LET today_val_set == {today_df.rows[i].assign : i \in 1..Len(today_df.rows)}
    IN  SelectSeq(comp.rows, LAMBDA r : r.assign \notin today_val_set)

\* new_df of upsert_compile
new_df(comp, today_df) ==
    IF today_df.columns # DATED THEN concat(comp, today_df)
    ELSE IF ~empty(comp) /\ comp.columns = DATED
         THEN concat(DataFrame(DATED, KeptRows(comp, today_df)), today_df)
         ELSE today_df

\* the cache is keyed by (spreadsheet_id, tab_name)
CacheKey(id, tab) == <<id, tab>>
Cached(key) == \E k \in DOMAIN _cache : k = key
CachePut(key, d) ==
    [k \in {x \in DOMAIN _cache : TRUE} \cup {key} |-> IF k = key THEN d ELSE _cache[k]]

\* the last call, its arguments and what it gave back; id is the
\* spreadsheet_id of the SheetsInfo the caller holds
Call(op, tab, arg, d, id, raised) ==
    [op |-> op, tab |-> tab, arg |-> arg, df |-> d, id |-> id, raised |-> raised]

-----------------------------------------------------------------------------
(* Specification of the Sheets client *)

MaxSheetRows == 2
MaxBatch     == 1

DryRunReasons == {"missing GOOGLE_SERVICE_ACCOUNT_FILE", "google libraries not available",
                  "auth error", "missing OUTPUT_DRIVE_FOLDER_ID"}

\* the batches the pipelines publish (build_non_a_df stamps every row with
\* today's key), a table without the Assign Date column, and None
TodayRows == {SheetRow(today_key, "a"), SheetRow(today_key, "b")}
Batches ==
    {DataFrame(DATED, rows) :
        rows \in {r \in SeqsOf(TodayRows, 0, MaxBatch) : Injective(r)}}
    \cup {DataFrame(UNDATED, <<SheetRow("", "b")>>), NoneDf}

\* what Compile holds before the client is built: rows of an earlier day,
\* rows of an earlier run of today, empty rows
CompileBefore ==
    {Tab(TRUE, DATED, rows) :
        rows \in SeqsOf({SheetRow(OTHER_DAY, "a"), SheetRow(today_key, "a"), BlankRow},
                        0, MaxSheetRows)}

SheetsInit ==
    /\ pc = "sheets"
    /\ dry_run_reason \in DryRunReasons \cup {""}
    /\ gc \in BOOLEAN
    \* gc is None unless the credentials were accepted; an auth error can
    \* come before or after gc is set
    /\ dry_run_reason \in {"", "missing OUTPUT_DRIVE_FOLDER_ID"} => gc
    /\ dry_run_reason \in {"missing GOOGLE_SERVICE_ACCOUNT_FILE",
                           "google libraries not available"} => ~gc
    /\ \/ tabs = [n \in TabNames |-> NoTab]
       \/ tabs = [n \in TabNames |-> IF n = SHEET1 THEN BlankTab ELSE NoTab]
       \/ \E c \in CompileBefore, d \in {NoTab, Tab(TRUE, DATED, <<SheetRow(today_key, "a")>>)} :
             tabs = [n \in TabNames |-> IF n = COMPILE_TAB THEN c
                                       ELSE IF n = today_key THEN d ELSE NoTab]
    /\ _cache = <<>>
    /\ returned = Call("__init__", "", EmptyDataFrame, EmptyDataFrame, "", FALSE)
    /\ external_writes = {}
    /\ mix_weights = <<>> /\ weights = <<>>
    /\ IdleApportion /\ IdleDedupe /\ IdleRequery /\ IdleSF /\ IdleAssign
    /\ IdleFilter /\ IdleGate /\ IdleTiers

SheetsUnchanged ==
    UNCHANGED <<pc, mix_weights, weights, dry_run_reason, gc, apportionVars, dedupeVars,
                requeryVars, sfVars, assignVars, filterVars, gateVars, tierVars>>

\* find_or_create_month_file
find_or_create_month_file ==
    /\ pc = "sheets"
    /\ \/ /\ dry_run
          /\ returned' = Call("find_or_create_month_file", "", EmptyDataFrame,
                              EmptyDataFrame, DRY_RUN_ID, FALSE)
          /\ UNCHANGED <<tabs, external_writes>>
       \/ /\ ~dry_run /\ FileExists(tabs)                \* found by name
          /\ returned' = Call("find_or_create_month_file", "", EmptyDataFrame,
                              EmptyDataFrame, MONTH_FILE_ID, FALSE)
          /\ UNCHANGED <<tabs, external_writes>>
       \/ /\ ~dry_run /\ ~FileExists(tabs)               \* created on Drive
          /\ tabs' = [tabs EXCEPT ![SHEET1] = BlankTab]
          /\ external_writes' = external_writes \cup {MONTH_FILE_ID}
          /\ returned' = Call("find_or_create_month_file", "", EmptyDataFrame,
                              EmptyDataFrame, MONTH_FILE_ID, FALSE)
       \/ /\ ~dry_run /\ ~FileExists(tabs)               \* Drive search and create failed
          /\ returned' = Call("find_or_create_month_file", "", EmptyDataFrame,
                              EmptyDataFrame, UNKNOWN_ID, FALSE)
          /\ UNCHANGED <<tabs, external_writes>>
    /\ UNCHANGED _cache
    /\ SheetsUnchanged

\* ensure_tabs(spreadsheet_id, ["Compile", day_tab]): there is no dry-run
\* branch; self.gc is None without credentials, and a placeholder id names
\* no spreadsheet
ensure_tabs ==
    /\ pc = "sheets" /\ returned.id # ""
    /\ IF ~gc \/ returned.id \in {DRY_RUN_ID, UNKNOWN_ID}
       THEN /\ returned' = Call("ensure_tabs", "", EmptyDataFrame, EmptyDataFrame,
                                returned.id, TRUE)
            /\ UNCHANGED <<tabs, external_writes>>
       ELSE LET missing == {n \in RequiredTabs : ~tabs[n].exists}
                drop1   == IF tabs[SHEET1].exists THEN {SHEET1} ELSE {}
            IN  /\ tabs' = [n \in TabNames |->
                               IF n \in missing THEN BlankTab
                               ELSE IF n \in drop1 THEN NoTab ELSE tabs[n]]
                /\ external_writes' = external_writes \cup missing \cup drop1
                /\ returned' = Call("ensure_tabs", "", EmptyDataFrame, EmptyDataFrame,
                                    returned.id, FALSE)
    /\ UNCHANGED _cache
    /\ SheetsUnchanged

\* write_df_to_tab(spreadsheet_id, tab_name, df): the part after the guards
Written(t, tab_name, d) == [t EXCEPT ![tab_name] = Tab(TRUE, d.columns, d.rows)]

write_df_to_tab ==
    /\ pc = "sheets" /\ returned.id # ""
    /\ \E tab_name \in RequiredTabs, d \in Batches :
          /\ IF d = NoneDf \/ dry_run \/ returned.id \in {DRY_RUN_ID, UNKNOWN_ID}
             THEN UNCHANGED <<tabs, external_writes>>
             ELSE /\ tabs' = Written(tabs, tab_name, d)
                  /\ external_writes' = external_writes \cup {tab_name}
          /\ returned' = Call("write_df_to_tab", tab_name, d, EmptyDataFrame,
                              returned.id, FALSE)
    /\ UNCHANGED _cache
    /\ SheetsUnchanged

\* what read_tab_as_df returns, and the cache it leaves
ReadValue(id, tab_name) ==
    IF Cached(CacheKey(id, tab_name)) THEN _cache[CacheKey(id, tab_name)]
    ELSE IF dry_run \/ id \in {DRY_RUN_ID, UNKNOWN_ID} THEN EmptyDataFrame
    ELSE Fetched(tabs[tab_name])
ReadCache(id, tab_name) ==
    IF Cached(CacheKey(id, tab_name)) THEN _cache
    ELSE CachePut(CacheKey(id, tab_name), ReadValue(id, tab_name))

read_tab_as_df ==
    /\ pc = "sheets" /\ returned.id # ""
    /\ \E tab_name \in RequiredTabs :
          /\ returned' = Call("read_tab_as_df", tab_name, EmptyDataFrame,
                              ReadValue(returned.id, tab_name), returned.id, FALSE)
          /\ _cache' = ReadCache(returned.id, tab_name)
    /\ UNCHANGED <<tabs, external_writes>>
    /\ SheetsUnchanged

\* upsert_compile(spreadsheet_id, today_df)
upsert_compile ==
    /\ pc = "sheets" /\ returned.id # ""
    /\ \E today_df \in Batches :
          /\ IF today_df = NoneDf \/ dry_run \/ returned.id \in {DRY_RUN_ID, UNKNOWN_ID}
             THEN UNCHANGED <<tabs, external_writes, _cache>>
             ELSE LET compile_frame == ReadValue(returned.id, COMPILE_TAB)
                  IN  /\ _cache' = ReadCache(returned.id, COMPILE_TAB)
                      /\ tabs' = Written(tabs, COMPILE_TAB, new_df(compile_frame, today_df))
                      /\ external_writes' = external_writes \cup {COMPILE_TAB}
          /\ returned' = Call("upsert_compile", COMPILE_TAB, today_df, EmptyDataFrame,
                              returned.id, FALSE)
    /\ SheetsUnchanged

SheetsNext == \/ find_or_create_month_file \/ ensure_tabs \/ write_df_to_tab
              \/ read_tab_as_df \/ upsert_compile
SpecSheets == SheetsInit /\ [][SheetsNext]_vars

-----------------------------------------------------------------------------
(* Claims about the Sheets client *)

SheetsLive == pc = "sheets" /\ ~dry_run /\ returned.id = MONTH_FILE_ID

\* C22 as stated: in dry-run mode (credentials or required ids missing) no
\* public operation of the client raises and none writes to Google, so the
\* calls of a pipeline run (find_or_create_month_file, ensure_tabs,
\* write_df_to_tab, upsert_compile) all return.
C22_DryRunNeverRaisesNeverWrites ==
    (pc = "sheets" /\ dry_run) => ~returned.raised /\ external_writes = {}

\* the rows of a tab whose Assign Date is today's
TodaysRows(rows) == SelectSeq(rows, LAMBDA r : r.assign = today_key)

\* C27 as stated, for the rows of today: once upsert_compile has run with a
\* batch that carries the Assign Date column, the rows of Compile dated
\* today are exactly the rows of that batch, whatever calls came before on
\* the same client; no row of an earlier run of today is left.
C27_UpsertReplacesTodaysRows ==
    (SheetsLive /\ returned.op = "upsert_compile" /\ returned.arg.columns = DATED)
        => TodaysRows(tabs[COMPILE_TAB].rows) = returned.arg.rows

\* C30 as stated: a read_tab_as_df of a tab this client has written returns
\* what the tab holds, which is the content last written to it.
C30_ReadAfterWriteReturnsLastWritten ==
    (SheetsLive /\ returned.op = "read_tab_as_df" /\ returned.tab \in external_writes)
        => returned.df.rows = Fetched(tabs[returned.tab]).rows

-----------------------------------------------------------------------------
(* non_a/build.py, utils.py: a published lead read back as history *)

PHONE_DASHED      == "091-234-5678"   \* the same number, as typed with dashes
PHONE_FLOAT_DIGITS == "9123456780"    \* the digits of "912345678.0"
CALLING_CODE_TH   == "=+66"
NAN               == "nan"            \* str() of a missing value

CandidatePhones == {PHONE, PHONE_ZERO, PHONE_DASHED, PHONE_FLOAT}

\* utils.normalize_phone: every character that is not a digit is removed
normalize_phone(raw) ==
    CASE raw = PHONE        -> PHONE
      [] raw = PHONE_ZERO   -> PHONE_ZERO
      [] raw = PHONE_DASHED -> PHONE_ZERO
      [] raw = PHONE_FLOAT  -> PHONE_FLOAT_DIGITS

\* utils.split_calling_code_th: (calling code, digits without one leading 0)
split_calling_code_th(local_digits) ==
    <<CALLING_CODE_TH, IF local_digits = PHONE_ZERO THEN PHONE ELSE local_digits>>

\* build_non_a_df: the 13 columns of NON_A_HEADERS; the columns that play no
\* part in the filters are left out. The output is df[NON_A_HEADERS], and
\* no header of NON_A_HEADERS is a source or platform column
NonARow(r) ==
    [Username |-> r.username,
     CallingCode |-> split_calling_code_th(normalize_phone(r.phone))[1],
     PhoneNumber |-> split_calling_code_th(normalize_phone(r.phone))[2],
     AssignDate |-> today_key,
     AnswerStatus |-> "", Result |-> ""]
build_non_a_df(source_rows) == [i \in 1..Len(source_rows) |-> NonARow(source_rows[i])]

\* a Phone Number cell comes back from the sheet as a number: an integer
\* column gives "912345678", a column with an empty cell becomes float and
\* gives "912345678.0"
PhoneReadBack(p, asFloat) ==
    IF p = PHONE /\ asFloat THEN PHONE_FLOAT ELSE p

\* the columns apply_filters takes from a Compile table of the Non-A
\* schema: "Username", "Phone Number", "Assign Date", "Answer Status",
\* "Result"; neither "platform" nor "source_key" exists, so the platform
\* of every row is missing
CompileOfNonA(rows, asFloat) ==
    [i \in 1..Len(rows) |->
        [username |-> rows[i].Username,
         phone |-> PhoneReadBack(rows[i].PhoneNumber, asFloat),
         platform |-> NAN,
         ans |-> rows[i].AnswerStatus, res |-> rows[i].Result,
         assign |-> rows[i].AssignDate]]

SameDayRow(u, p, s) == [username |-> u, phone |-> p, source_key |-> s, Result |-> ""]

\* the candidates of both runs: the loaders return the same leads
SameDayPools ==
    {WithIndex(t, RangeIndex(Len(t))) :
        t \in {x \in SeqsOf({SameDayRow(u, p, s) : u \in FilterUsers, p \in CandidatePhones,
                                                   s \in {SOURCE_PC, SOURCE_MOBILE}},
                            1, MaxPool) :
                 CanonicalUsers(x) /\ Injective([i \in 1..Len(x) |-> x[i].username])}}

SameDayInit ==
    /\ pc = "publish"
    /\ pool_df \in SameDayPools
    /\ result_column = FALSE
    /\ compile_df = <<>>
    /\ blacklist_df = <<>>
    /\ redeemed_usernames_today = {}
    /\ toggles \in {tg \in ToggleChoices : AllOn(tg) /\ tg.unreachable_min_count = 1}
    /\ filtered = <<>>
    /\ tier_of = <<>> /\ published_a = <<>> /\ published_non_a = <<>> /\ runs = {}
    /\ mix_weights = <<>> /\ weights = <<>>
    /\ IdleApportion /\ IdleDedupe /\ IdleRequery /\ IdleSF /\ IdleAssign
    /\ IdleGate /\ IdleSheets

\* the first run of the day publishes its candidates (day tab and Compile)
PublishNonA ==
    /\ pc = "publish"
    /\ published_non_a' = build_non_a_df(pool_df)
    /\ pc' = "read_history"
    /\ UNCHANGED <<mix_weights, weights, apportionVars, dedupeVars, requeryVars, sfVars,
                   assignVars, filterVars, gateVars, sheetVars, tier_of, published_a, runs>>

\* a later run of the same day reads Compile
ReadHistory ==
    /\ pc = "read_history"
    /\ \E asFloat \in BOOLEAN : compile_df' = CompileOfNonA(published_non_a, asFloat)
    /\ pc' = "filter"
    /\ UNCHANGED <<pool_df, result_column, blacklist_df, redeemed_usernames_today, toggles,
                   filtered, mix_weights, weights, apportionVars, dedupeVars, requeryVars,
                   sfVars, assignVars, gateVars, sheetVars, tierVars>>

SameDayNext == PublishNonA \/ ReadHistory \/ ApplyFilters
SpecSameDay == SameDayInit /\ [][SameDayNext]_vars

\* C29 as stated: every candidate of the later run was published today by
\* the earlier run, its row read back from Compile gives the candidate's
\* own composite key, and the already-assigned-today rule drops it.
C29_PublishedLeadDroppedBySameDayRule ==
    (pc = "filter_done" /\ published_non_a # <<>>) =>
        /\ \A i \in 1..Len(pool_df) : CompKey(compile_df[i]) = _triple_key(pool_df[i])
        /\ filtered = <<>>

-----------------------------------------------------------------------------
(* main.py: the Tier A run followed by the Non-A run *)

TierLabels == {"A-1", " a-1", "B-1"}

\* constants.is_tier_a: str(label).strip().upper().startswith("A-")
is_tier_a(label) == label \in {"A-1", " a-1"}

\* rules.build_tier_a_pool: the Hot batches, deduplicated by phone
build_tier_a_pool(pools) == earlier_window_wins_dedupe(PoolGet(pools, WINDOW_HOT))

\* build_tier_a_df / build_non_a_df: the Tier column is the row's tier
TierARow(r) == [uid |-> r.uid, phone |-> r.phone, Tier |-> tier_of[r.uid]]
NonATierRow(r, caller) ==
    [uid |-> r.uid, phone |-> r.phone, Tier |-> tier_of[r.uid], Telesale |-> caller]

\* both runs load the same candidates; one caller is available, so
\* target_rows is per_caller_target; Compile and Blacklist are empty and no
\* mix is configured (the 50/50 default)
TiersInit ==
    /\ pc = "tier_a"
    /\ \E rows \in PoolRows :
          /\ rows # <<>>
          /\ pools_by_window = NonAPools(rows)
          /\ tier_of \in [1..Len(rows) -> TierLabels]
    /\ target_rows \in 1..MaxTargetRows
    /\ mix_weights = <<Entry(SOURCE_PC, 1), Entry(SOURCE_MOBILE, 1)>>
    /\ weights = <<>>
    /\ quotas = <<>> /\ remaining = <<>> /\ taken_frames = <<>>
    /\ combined = <<>> /\ si = 0 /\ result = <<>>
    /\ chosen_frames = <<>> /\ touched = {} /\ wi = 0
    /\ published_a = <<>> /\ published_non_a = <<>> /\ runs = {}
    /\ IdleApportion /\ IdleDedupe /\ IdleAssign /\ IdleFilter /\ IdleGate
    /\ IdleSheets

\* tier_a.pipeline.run: Hot pool, filters (nothing to match), build, write
TierARun ==
    /\ pc = "tier_a"
    /\ LET a_rows_raw == build_tier_a_pool(pools_by_window)
       IN  published_a' = [i \in 1..Len(a_rows_raw) |-> TierARow(a_rows_raw[i])]
    /\ runs' = runs \cup {TIER_A}
    /\ pc' = "sf_start"
    /\ UNCHANGED <<mix_weights, weights, apportionVars, dedupeVars, requeryVars, sfVars,
                   assignVars, filterVars, gateVars, sheetVars, tier_of, published_non_a>>

\* non_a.pipeline.run after the selection: filters (nothing to match),
\* assign_mix_aware and the round-robin fill of blank callers, build, write
NonAPublish ==
    /\ pc = "sf_done" /\ TIER_A \in runs
    /\ published_non_a' = [i \in 1..Len(result) |-> NonATierRow(result[i], CallerName(1))]
    /\ runs' = runs \cup {NON_A}
    /\ pc' = "main_done"
    /\ UNCHANGED <<mix_weights, weights, apportionVars, dedupeVars, requeryVars, sfVars,
                   assignVars, filterVars, gateVars, sheetVars, tier_of, published_a>>

TiersNext == TierARun \/ SFNext \/ NonAPublish
SpecTiers == TiersInit /\ [][TiersNext]_vars

\* C21 as stated: after both runs of main, every row of the Tier A output
\* has a Tier A label, no assigned row of the Non-A output has one, and no
\* lead is in both outputs.
C21_TierSeparation ==
    (pc = "main_done") =>
        /\ \A i \in 1..Len(published_a) : is_tier_a(published_a[i].Tier)
        /\ \A i \in 1..Len(published_non_a) :
              published_non_a[i].Telesale # "" => ~is_tier_a(published_non_a[i].Tier)
        /\ \A i \in 1..Len(published_a) : \A j \in 1..Len(published_non_a) :
              published_a[i].uid # published_non_a[j].uid

-----------------------------------------------------------------------------
(* All functions together *)

Init == \/ ApportionInit \/ DedupeInit \/ RequeryInit \/ SFInit \/ AssignInit
        \/ DefaultsInit \/ FilterInit \/ GateInit \/ TopUpInit \/ BorrowInit
        \/ NonAPoolsInit \/ SheetsInit \/ SameDayInit \/ TiersInit
Next == \/ ApportionNext \/ DedupeNext \/ RequeryNext \/ SFNext \/ AssignNext
        \/ FilterNext \/ GateNext \/ SheetsNext \/ SameDayNext \/ TiersNext
Spec == Init /\ [][Next]_vars

====
